---- MODULE Spec2Model ----
(***************************************************************************)
(* A model of package ztex (github.com/aljumi/ztex): the descriptor and    *)
(* configuration codec of a ZTEX USB-FPGA module, its status codecs, its   *)
(* capability-gated command layer and its numeric formatting utility.      *)
(*                                                                         *)
(* The USB transport (gousb) is the environment: every control transfer    *)
(* is answered by a nondeterministically chosen response (an error, a byte *)
(* count and the bytes written into the caller's buffer).                  *)
(*                                                                         *)
(* Conventions.  A Go array [n]uint8 is a function with domain 0..n-1, so  *)
(* that indices are those of the source.  An unsigned 64-bit integer is    *)
(* the set of the positions of its 1 bits (a subset of 0..63), which keeps *)
(* the width of the type where shifts overflow.  A formatted text is the   *)
(* sequence of the pieces fmt.Sprintf concatenates, a number standing for  *)
(* its decimal rendering.                                                  *)
(***************************************************************************)
EXTENDS Integers, Sequences, FiniteSets, TLC

VARIABLES
    pc,      \* position of the client: "idle", or the step OpenDevice is at
    d,       \* the Device value under construction or held by the client
    opened,  \* TRUE iff the last OpenDevice returned a non-nil device
    opt,     \* the options of the OpenDevice call in progress, not yet applied
    xfers,   \* the control transfers issued on the handle during the last call
    rsp,     \* the transport's answer to the last control transfer
    ret,     \* what the last call returned
    arg,     \* codec specification: the input of the last codec call
    out,     \* codec specification: the output of the last codec call
    devs,    \* two-device specification: the Device of each open handle
             \* with the transfers, the answer and the result of its last call
    leg      \* first revision: the package variable ControlTimeout, the
             \* Device, the transfers, the answers and the result of the
             \* last call

vars == <<pc, d, opened, opt, xfers, rsp, ret, arg, out, devs, leg>>

(***************************************************************************)
(* Bounds of the model.                                                    *)
(***************************************************************************)
\* number of distinct fill patterns of the bytes a response leaves free
NumFills == 2
\* longest option list handed to OpenDevice
MaxOptions == 2
\* most 1 bits in a 64-bit input of the codec specification
MaxBits == 3

(***************************************************************************)
(* Bytes and arrays.                                                       *)
(***************************************************************************)
Byte == 0..255

\* The Go array literal [n]uint8{s[1], ..., s[n]}, indexed from 0.
Arr(s) == [i \in 0..(Len(s) - 1) |-> s[i + 1]]

\* x & y on naturals.
RECURSIVE And(_, _)
And(x, y) ==
    IF x = 0 \/ y = 0 THEN 0
    ELSE (x % 2) * (y % 2) + 2 * And(x \div 2, y \div 2)

\* x | y on naturals.
RECURSIVE Or(_, _)
Or(x, y) ==
    IF x = 0 THEN y
    ELSE IF y = 0 THEN x
    ELSE (IF x % 2 = 1 \/ y % 2 = 1 THEN 1 ELSE 0) + 2 * Or(x \div 2, y \div 2)

\* The first n elements b[0..n-1] of a buffer, as a sequence.
Prefix(b, n) == [i \in 1..n |-> b[i - 1]]

(***************************************************************************)
(* Errors.  fmt.Errorf's message is kept as its kind and the values the    *)
(* format string is given (got, want).                                     *)
(***************************************************************************)
Err(kind, got, want) == [kind |-> kind, got |-> got, want |-> want]

\* The nil error.
Nil == Err("nil", 0, 0)

\* The error of Control itself, wrapped ("...: %v", err).
TransportErr == Err("transport", 0, 0)

\* fmt.Errorf("operation not supported")
NotSupported == Err("operation not supported", 0, 0)

(***************************************************************************)
(* The capability bit field (descriptor.go).                               *)
(***************************************************************************)
\* d[i]&(1<<j) != 0
cap(z, i, j) == And(z[i], 2^j) # 0

EEPROM(z) == cap(z, 0, 0)

FPGAConfiguration(z) == cap(z, 0, 1)

FlashMemory(z) == cap(z, 0, 2)

DebugHelper(z) == cap(z, 0, 3)

XMEGA(z) == cap(z, 0, 4)

HighSpeedFPGAConfiguration(z) == cap(z, 0, 5)

MACEEPROM(z) == cap(z, 0, 6)

MultiFPGA(z) == cap(z, 0, 7)

\* Mutant: the flag is looked up in the third capability byte.
TemperatureSensor_Byte2(z) == cap(z, 2, 0)

TemperatureSensor(z) == cap(z, 1, 0)

\* Mutant: the flag shares bit 1.2 with FX3Firmware.
FlashMemory2_Bit2(z) == cap(z, 1, 2)

FlashMemory2(z) == cap(z, 1, 1)

FX3Firmware(z) == cap(z, 1, 2)

DebugHelper2(z) == cap(z, 1, 3)

\* Mutant: the gate reads the neighbouring bit 1.3.
DefaultFirmware_Bit3(z) == cap(z, 1, 3)

DefaultFirmware(z) == cap(z, 1, 4)

\* DescriptorCapability.String: the names and the answers of the accessors,
\* in the order they are joined.
DescriptorCapabilityString(z) ==
    <<<<"EEPROM", EEPROM(z)>>,
      <<"FPGA Configuration", FPGAConfiguration(z)>>,
      <<"Flash Memory", FlashMemory(z)>>,
      <<"Debug Helper", DebugHelper(z)>>,
      <<"XMEGA", XMEGA(z)>>,
      <<"High Speed FPGA Configuration", HighSpeedFPGAConfiguration(z)>>,
      <<"MAC EEPROM", MACEEPROM(z)>>,
      <<"MultiFPGA", MultiFPGA(z)>>,
      <<"Temperature Sensor", TemperatureSensor(z)>>,
      <<"Flash Memory 2", FlashMemory2(z)>>,
      <<"FX3 Firmware", FX3Firmware(z)>>,
      <<"Debug Helper 2", DebugHelper2(z)>>,
      <<"Default Firmware", DefaultFirmware(z)>>>>

(***************************************************************************)
(* The Device value and its zero value (d := &Device{}).                   *)
(***************************************************************************)
Zeros(n) == [i \in 0..(n - 1) |-> 0]

ZeroDescriptorConfig ==
    [DescriptorSize       |-> 0,
     DescriptorVersion    |-> 0,
     DescriptorMagic      |-> Zeros(4),
     DescriptorProduct    |-> Zeros(4),
     DescriptorFirmware   |-> 0,
     DescriptorInterface  |-> 0,
     DescriptorCapability |-> Zeros(6),
     DescriptorModule     |-> Zeros(12),
     DescriptorSerial     |-> Zeros(10)]

ZeroBoardConfig ==
    [BoardType    |-> 0,
     BoardVersion |-> [BoardSeries  |-> 0,
                       BoardNumber  |-> 0,
                       BoardVariant |-> Zeros(2)]]

ZeroFPGAConfig ==
    [FPGAType |-> Zeros(2), FPGAPackage |-> 0, FPGAGrade |-> Zeros(3)]

ZeroRAMConfig == [RAMSize |-> 0, RAMType |-> 0]

ZeroBitstreamConfig ==
    [BitstreamSize     |-> Zeros(2),
     BitstreamCapacity |-> Zeros(2),
     BitstreamStart    |-> Zeros(2)]

\* ControlTimeout is the field of the embedded *gousb.Device an option sets.
ZeroDevice ==
    [ControlTimeout   |-> 0,
     DescriptorConfig |-> ZeroDescriptorConfig,
     BoardConfig      |-> ZeroBoardConfig,
     FPGAConfig       |-> ZeroFPGAConfig,
     RAMConfig        |-> ZeroRAMConfig,
     BitstreamConfig  |-> ZeroBitstreamConfig]

(***************************************************************************)
(* Control transfers.  A transfer is what the handle is asked; a response  *)
(* is what gousb answers: err, the byte count nbr, and the caller's buffer *)
(* b as the call leaves it (make() zeroes it, the device fills nbr bytes). *)
(***************************************************************************)
Xfer(rType, request, val, idx, len) ==
    [rType |-> rType, request |-> request, val |-> val, idx |-> idx, len |-> len]

\* A buffer of n zero bytes of which the first nbr were overwritten by data.
Received(data, nbr, n) == [i \in 0..(n - 1) |-> IF i < nbr THEN data[i] ELSE 0]

Response(err, nbr, b) == [err |-> err, nbr |-> nbr, b |-> b]

\* The bytes a response carries where the model does not choose them: fill 0
\* gives every offset another non-zero byte, the others put zero bytes in.
Fill(f, i) ==
    IF f = 0 THEN (7 * i + 3) % 256
    ELSE IF i % (f + 2) = 0 THEN 0
    ELSE (7 * i + 3 + 50 * f) % 256

Fills == 0..(NumFills - 1)

(***************************************************************************)
(* Reading the device descriptor (VR 0x22, 40 bytes).                      *)
(***************************************************************************)
\* What the device may put into the 40-byte buffer: size, version and the
\* first two capability bytes are chosen, the rest is a fill pattern.
DescriptorData(b0, b1, c0, c1, f) ==
    [i \in 0..39 |->
        CASE i = 0  -> b0
          [] i = 1  -> b1
          [] i = 12 -> c0
          [] i = 13 -> c1
          [] OTHER  -> Fill(f, i)]

\* Capability bytes 0 and 1: the gating bits 0.1, 0.2 and 1.2, 1.4 alone,
\* clear among set bits, and all set.
Cap0Values == {0, 2, 4, 249, 255}

Cap1Values == {0, 4, 16, 235, 255}

\* The answers to d.Control(0xc0, 0x22, 0, 0, b): a transport error, or a
\* byte count of at most len(b) = 40 with that many bytes received.
DescriptorResponses ==
    {Response(TRUE, 0, Zeros(40))}
    \cup {Response(FALSE, n, Received(DescriptorData(40, 1, 2, 4, 0), n, 40)) :
            n \in {0, 39}}
    \cup {Response(FALSE, 40, DescriptorData(b0, b1, 255, 255, f)) :
            b0 \in {0, 40, 41}, b1 \in {0, 1, 2}, f \in Fills}
    \cup {Response(FALSE, 40, DescriptorData(40, 1, c0, c1, f)) :
            c0 \in Cap0Values, c1 \in Cap1Values, f \in Fills}

\* Mutant: the version is checked before the size.
descriptorError_VersionFirst(r) ==
    IF r.err THEN TransportErr
    ELSE IF r.nbr # 40 THEN Err("bytes", r.nbr, 40)
    ELSE IF r.b[1] # 1 THEN Err("version", r.b[0], 1)
    ELSE IF r.b[0] # 40 THEN Err("size", r.b[0], 40)
    ELSE Nil

\* The if-chain of readDescriptorConfig: the error the response is refused
\* with, or Nil.  (The version message is given b[0], as in the source.)
descriptorError(r) ==
    IF r.err THEN TransportErr
    ELSE IF r.nbr # 40 THEN Err("bytes", r.nbr, 40)
    ELSE IF r.b[0] # 40 THEN Err("size", r.b[0], 40)
    ELSE IF r.b[1] # 1 THEN Err("version", r.b[0], 1)
    ELSE Nil

\* Mutant: the module field starts one byte early, at the last capability
\* byte.
decodeDescriptorConfig_ModuleEarly(b) ==
    [DescriptorSize       |-> b[0],
     DescriptorVersion    |-> b[1],
     DescriptorMagic      |-> Arr(<<b[2], b[3], b[4], b[5]>>),
     DescriptorProduct    |-> Arr(<<b[6], b[7], b[8], b[9]>>),
     DescriptorFirmware   |-> b[10],
     DescriptorInterface  |-> b[11],
     DescriptorCapability |-> Arr(<<b[12], b[13], b[14], b[15], b[16], b[17]>>),
     DescriptorModule     |-> Arr(<<b[17], b[18], b[19], b[20], b[21], b[22],
                                    b[23], b[24], b[25], b[26], b[27], b[28]>>),
     DescriptorSerial     |-> Arr(<<b[30], b[31], b[32], b[33], b[34], b[35],
                                    b[36], b[37], b[38], b[39]>>)]

\* The DescriptorConfig literal built from the buffer.
decodeDescriptorConfig(b) ==
    [DescriptorSize       |-> b[0],
     DescriptorVersion    |-> b[1],
     DescriptorMagic      |-> Arr(<<b[2], b[3], b[4], b[5]>>),
     DescriptorProduct    |-> Arr(<<b[6], b[7], b[8], b[9]>>),
     DescriptorFirmware   |-> b[10],
     DescriptorInterface  |-> b[11],
     DescriptorCapability |-> Arr(<<b[12], b[13], b[14], b[15], b[16], b[17]>>),
     DescriptorModule     |-> Arr(<<b[18], b[19], b[20], b[21], b[22], b[23],
                                    b[24], b[25], b[26], b[27], b[28], b[29]>>),
     DescriptorSerial     |-> Arr(<<b[30], b[31], b[32], b[33], b[34], b[35],
                                    b[36], b[37], b[38], b[39]>>)]

\* (*Device).readDescriptorConfig on device dev, answered by r: the device
\* as the method leaves it and the error it returns.
readDescriptorConfig(dev, r) ==
    LET e == descriptorError(r) IN
    IF e.kind # "nil" THEN [d |-> dev, err |-> e]
    ELSE [d   |-> [dev EXCEPT !.DescriptorConfig = decodeDescriptorConfig(r.b)],
          err |-> Nil]

(***************************************************************************)
(* Reading the device configuration (VR 0x3b, 128 bytes).                  *)
(***************************************************************************)
\* Board variants and FPGA grades with zero bytes in every position.
VariantGrades ==
    {<<Arr(<<0, 0>>), Arr(<<0, 0, 0>>)>>,
     <<Arr(<<98, 0>>), Arr(<<50, 0, 67>>)>>,
     <<Arr(<<98, 49>>), Arr(<<50, 67, 0>>)>>,
     <<Arr(<<0, 49>>), Arr(<<50, 67, 73>>)>>}

ConfigData(sig, vg, f) ==
    [i \in 0..127 |->
        CASE i \in 0..2   -> sig[i]
          [] i \in 6..7   -> vg[1][i - 6]
          [] i \in 11..13 -> vg[2][i - 11]
          [] OTHER        -> Fill(f, i)]

\* 'C', 'D', '0'
CD0 == Arr(<<67, 68, 48>>)

\* Signatures wrong in exactly one byte, and wrong in all.
BadSignatures ==
    {Arr(<<0, 68, 48>>), Arr(<<67, 100, 48>>), Arr(<<67, 68, 0>>),
     Arr(<<0, 0, 0>>)}

\* The answers to d.Control(0xc0, 0x3b, 0, 0, b).
ConfigResponses ==
    {Response(TRUE, 0, Zeros(128))}
    \cup {Response(FALSE, n, Received(ConfigData(CD0, vg, 0), n, 128)) :
            n \in {3, 127}, vg \in {<<Arr(<<98, 49>>), Arr(<<50, 67, 0>>)>>}}
    \cup {Response(FALSE, 128, ConfigData(sig, vg, 0)) :
            sig \in BadSignatures, vg \in {<<Arr(<<98, 0>>), Arr(<<50, 0, 67>>)>>}}
    \cup {Response(FALSE, 128, ConfigData(CD0, vg, f)) :
            vg \in VariantGrades, f \in Fills}

\* Mutant: the signature is refused only when all three bytes are wrong.
configError_AllWrong(r) ==
    IF r.err THEN TransportErr
    ELSE IF r.nbr # 128 THEN Err("bytes", r.nbr, 128)
    ELSE IF r.b[0] # 67 /\ r.b[1] # 68 /\ r.b[2] # 48
         THEN Err("signature", Prefix(r.b, 3), <<67, 68, 48>>)
    ELSE Nil

\* The if-chain of readDeviceConfig.
configError(r) ==
    IF r.err THEN TransportErr
    ELSE IF r.nbr # 128 THEN Err("bytes", r.nbr, 128)
    ELSE IF r.b[0] # 67 \/ r.b[1] # 68 \/ r.b[2] # 48
         THEN Err("signature", Prefix(r.b, 3), <<67, 68, 48>>)
    ELSE Nil

decodeBoardConfig(b) ==
    [BoardType    |-> b[3],
     BoardVersion |-> [BoardSeries  |-> b[4],
                       BoardNumber  |-> b[5],
                       BoardVariant |-> Arr(<<b[6], b[7]>>)]]

\* Mutant: the grade is cut at its first zero byte when decoded.
decodeFPGAConfig_GradeCut(b) ==
    [FPGAType    |-> Arr(<<b[8], b[9]>>),
     FPGAPackage |-> b[10],
     FPGAGrade   |-> Arr(<<b[11],
                           IF b[11] = 0 THEN 0 ELSE b[12],
                           IF b[11] = 0 \/ b[12] = 0 THEN 0 ELSE b[13]>>)]

decodeFPGAConfig(b) ==
    [FPGAType    |-> Arr(<<b[8], b[9]>>),
     FPGAPackage |-> b[10],
     FPGAGrade   |-> Arr(<<b[11], b[12], b[13]>>)]

decodeRAMConfig(b) == [RAMSize |-> b[14], RAMType |-> b[15]]

decodeBitstreamConfig(b) ==
    [BitstreamSize     |-> Arr(<<b[26], b[27]>>),
     BitstreamCapacity |-> Arr(<<b[28], b[29]>>),
     BitstreamStart    |-> Arr(<<b[30], b[31]>>)]

\* (*Device).readDeviceConfig on device dev, answered by r.
\* Mutant: the descriptor fields are views of the buffer, which the answer
\* has overwritten.
readDeviceConfig_Aliased(dev, r) ==
    LET e == configError(r)
        v == IF r.err THEN dev
             ELSE [dev EXCEPT !.DescriptorConfig = decodeDescriptorConfig(r.b)]
    IN
    IF e.kind # "nil" THEN [d |-> v, err |-> e]
    ELSE [d   |-> [v EXCEPT !.BoardConfig     = decodeBoardConfig(r.b),
                            !.FPGAConfig      = decodeFPGAConfig(r.b),
                            !.RAMConfig       = decodeRAMConfig(r.b),
                            !.BitstreamConfig = decodeBitstreamConfig(r.b)],
          err |-> Nil]

readDeviceConfig(dev, r) ==
    LET e == configError(r) IN
    IF e.kind # "nil" THEN [d |-> dev, err |-> e]
    ELSE [d   |-> [dev EXCEPT !.BoardConfig     = decodeBoardConfig(r.b),
                              !.FPGAConfig      = decodeFPGAConfig(r.b),
                              !.RAMConfig       = decodeRAMConfig(r.b),
                              !.BitstreamConfig = decodeBitstreamConfig(r.b)],
          err |-> Nil]

(***************************************************************************)
(* The command layer.  Each operator is one method: given the device and   *)
(* the transport's answer r, the transfers the call issues and what it     *)
(* returns (err, and val: the pointer to the status, "nil" for a reset).   *)
(***************************************************************************)
Call(x, err, val) == [xfers |-> x, err |-> err, val |-> val]

\* The answers to a reset's Control(0x40, ..., nil).
ResetResponses ==
    {Response(TRUE, 0, <<>>), Response(FALSE, 0, <<>>), Response(FALSE, 1, <<>>)}

\* Mutant: the byte count of the answer is not checked.
ResetFX3_CountIgnored(dev, r) ==
    IF ~FX3Firmware(dev.DescriptorConfig.DescriptorCapability)
    THEN Call(<<>>, NotSupported, "nil")
    ELSE LET x == <<Xfer(64, 161, 1, 0, 0)>> IN
         IF r.err THEN Call(x, TransportErr, "nil")
         ELSE Call(x, Nil, "nil")

ResetFX3(dev, r) ==
    IF ~FX3Firmware(dev.DescriptorConfig.DescriptorCapability)
    THEN Call(<<>>, NotSupported, "nil")
    ELSE LET x == <<Xfer(64, 161, 1, 0, 0)>> IN
         IF r.err THEN Call(x, TransportErr, "nil")
         ELSE IF r.nbr # 0 THEN Call(x, Err("bytes", r.nbr, 0), "nil")
         ELSE Call(x, Nil, "nil")

ResetFPGA(dev, r) ==
    IF ~FPGAConfiguration(dev.DescriptorConfig.DescriptorCapability)
    THEN Call(<<>>, NotSupported, "nil")
    ELSE LET x == <<Xfer(64, 49, 0, 0, 0)>> IN
         IF r.err THEN Call(x, TransportErr, "nil")
         ELSE IF r.nbr # 0 THEN Call(x, Err("bytes", r.nbr, 0), "nil")
         ELSE Call(x, Nil, "nil")

ResetDefaultFirmware(dev, r) ==
    IF ~DefaultFirmware(dev.DescriptorConfig.DescriptorCapability)
    THEN Call(<<>>, NotSupported, "nil")
    ELSE LET x == <<Xfer(64, 96, 0, 0, 0)>> IN
         IF r.err THEN Call(x, TransportErr, "nil")
         ELSE IF r.nbr # 0 THEN Call(x, Err("bytes", r.nbr, 0), "nil")
         ELSE Call(x, Nil, "nil")

\* A *FPGAStatus or *FlashStatus: nil, or <<z>> pointing to the status z.
NilStatus == <<>>

\* 9-byte FPGA states: configured, checksum, transferred[4], init, result,
\* swapped.
FPGAStatusData ==
    {Arr(<<0, 90, 0, 0, 1, 0, 3, 0, 1>>),
     Arr(<<1, 17, 255, 255, 255, 255, 0, 4, 0>>),
     Arr(<<2, 0, 0, 4, 0, 0, 255, 9, 2>>)}

\* The answers to d.Control(0xc0, 0x30, 0, 0, b), len(b) = 9.
FPGAStatusResponses ==
    {Response(TRUE, 0, Zeros(9))}
    \cup {Response(FALSE, n, Received(x, n, 9)) :
            n \in {0, 8}, x \in {Arr(<<1, 17, 255, 255, 255, 255, 0, 4, 0>>)}}
    \cup {Response(FALSE, 9, x) : x \in FPGAStatusData}

\* Mutant: the status of the call before is kept and returned again.
decodeFPGAStatus_Stale(b) ==
    IF ret.op = "FPGAStatus" /\ ret.err.kind = "nil"
    THEN ret.val[1]
    ELSE [FPGAConfigured  |-> b[0],
          FPGAChecksum    |-> b[1],
          FPGATransferred |-> Arr(<<b[2], b[3], b[4], b[5]>>),
          FPGAInit        |-> b[6],
          FPGAResult      |-> b[7],
          FPGASwapped     |-> b[8]]

decodeFPGAStatus(b) ==
    [FPGAConfigured  |-> b[0],
     FPGAChecksum    |-> b[1],
     FPGATransferred |-> Arr(<<b[2], b[3], b[4], b[5]>>),
     FPGAInit        |-> b[6],
     FPGAResult      |-> b[7],
     FPGASwapped     |-> b[8]]

\* Mutant: a short answer is asked for a second time.
FPGAStatus_Retry(dev, r) ==
    IF ~FPGAConfiguration(dev.DescriptorConfig.DescriptorCapability)
    THEN Call(<<>>, NotSupported, NilStatus)
    ELSE LET x == <<Xfer(192, 48, 0, 0, 9)>> IN
         IF r.err THEN Call(x, TransportErr, NilStatus)
         ELSE IF r.nbr # 9 THEN Call(x \o x, Err("bytes", r.nbr, 9), NilStatus)
         ELSE Call(x, Nil, <<decodeFPGAStatus(r.b)>>)

\* Mutant: the gate is read from a package-level variable holding the
\* device that was opened first.
FPGAStatus_Shared(dev, r) ==
    IF ~FPGAConfiguration(devs[1].d.DescriptorConfig.DescriptorCapability)
    THEN Call(<<>>, NotSupported, NilStatus)
    ELSE LET x == <<Xfer(192, 48, 0, 0, 9)>> IN
         IF r.err THEN Call(x, TransportErr, NilStatus)
         ELSE IF r.nbr # 9 THEN Call(x, Err("bytes", r.nbr, 9), NilStatus)
         ELSE Call(x, Nil, <<decodeFPGAStatus(r.b)>>)

FPGAStatus(dev, r) ==
    IF ~FPGAConfiguration(dev.DescriptorConfig.DescriptorCapability)
    THEN Call(<<>>, NotSupported, NilStatus)
    ELSE LET x == <<Xfer(192, 48, 0, 0, 9)>> IN
         IF r.err THEN Call(x, TransportErr, NilStatus)
         ELSE IF r.nbr # 9 THEN Call(x, Err("bytes", r.nbr, 9), NilStatus)
         ELSE Call(x, Nil, <<decodeFPGAStatus(r.b)>>)

\* 8-byte flash states: enabled, sector[2], count[4], error.
FlashStatusData ==
    {Arr(<<1, 12, 128, 0, 0, 1, 0, 0>>),
     Arr(<<1, 0, 16, 0, 2, 0, 0, 3>>),
     Arr(<<0, 64, 128, 255, 255, 255, 255, 9>>)}

\* The answers to d.Control(0xc0, 0x40, 0, 0, b), len(b) = 8.
FlashStatusResponses ==
    {Response(TRUE, 0, Zeros(8))}
    \cup {Response(FALSE, n, Received(x, n, 8)) :
            n \in {0, 7}, x \in {Arr(<<1, 12, 128, 0, 0, 1, 0, 0>>)}}
    \cup {Response(FALSE, 8, x) : x \in FlashStatusData}

decodeFlashStatus(b) ==
    [FlashEnabled |-> b[0],
     FlashSector  |-> Arr(<<b[1], b[2]>>),
     FlashCount   |-> Arr(<<b[3], b[4], b[5], b[6]>>),
     FlashError   |-> b[7]]

\* Mutant: a short answer is decoded and returned along with the error.
FlashStatus_Partial(dev, r) ==
    IF ~FlashMemory(dev.DescriptorConfig.DescriptorCapability)
    THEN Call(<<>>, NotSupported, NilStatus)
    ELSE LET x == <<Xfer(192, 64, 0, 0, 8)>> IN
         IF r.err THEN Call(x, TransportErr, NilStatus)
         ELSE IF r.nbr # 8 THEN Call(x, Err("bytes", r.nbr, 8), <<decodeFlashStatus(r.b)>>)
         ELSE Call(x, Nil, <<decodeFlashStatus(r.b)>>)

FlashStatus(dev, r) ==
    IF ~FlashMemory(dev.DescriptorConfig.DescriptorCapability)
    THEN Call(<<>>, NotSupported, NilStatus)
    ELSE LET x == <<Xfer(192, 64, 0, 0, 8)>> IN
         IF r.err THEN Call(x, TransportErr, NilStatus)
         ELSE IF r.nbr # 8 THEN Call(x, Err("bytes", r.nbr, 8), NilStatus)
         ELSE Call(x, Nil, <<decodeFlashStatus(r.b)>>)

(***************************************************************************)
(* Unsigned 64-bit integers, as the sets of their 1 bits.                  *)
(***************************************************************************)
\* uint64(n) for a natural below 2^31.
Bits(n) == {i \in 0..30 : (n \div (2^i)) % 2 = 1}

\* The value of a set of bits below 31.
RECURSIVE Val(_)
Val(S) ==
    IF S = {} THEN 0
    ELSE LET b == CHOOSE x \in S : TRUE IN 2^b + Val(S \ {b})

\* n << k in an unsigned type of w bits: bits shifted to w and above are lost.
ShlW(n, k, w) == {b + k : b \in {x \in n : x + k < w}}

\* n << k and n >> k in uint64.
Shl(n, k) == ShlW(n, k, 64)

Shr(n, k) == {b - k : b \in {x \in n : x >= k}}

\* n & (1<<k - 1)
Low(n, k) == {b \in n : b < k}

(***************************************************************************)
(* The numeric formatting utility (util.go).                               *)
(***************************************************************************)
\* The prefixes as the format strings spell them.
PrefixGi == "Gi"

PrefixMi == "Mi"

PrefixKi == "ki"

\* Mutant: the cases are tried from the smallest scale up.
binaryPrefix_KiFirst(n, unit) ==
    IF n # {} /\ Low(n, 10) = {}
    THEN <<Shr(n, 10), PrefixKi, unit, " (", n, unit, ")">>
    ELSE IF n # {} /\ Low(n, 20) = {}
    THEN <<Shr(n, 20), PrefixMi, unit, " (", n, unit, ")">>
    ELSE IF n # {} /\ Low(n, 30) = {}
    THEN <<Shr(n, 30), PrefixGi, unit, " (", n, unit, ")">>
    ELSE <<n, unit>>

\* Mutant: the Mi case tests the mask of the ki case.
binaryPrefix_MiMask(n, unit) ==
    IF n # {} /\ Low(n, 30) = {}
    THEN <<Shr(n, 30), PrefixGi, unit, " (", n, unit, ")">>
    ELSE IF n # {} /\ Low(n, 10) = {}
    THEN <<Shr(n, 20), PrefixMi, unit, " (", n, unit, ")">>
    ELSE <<n, unit>>

binaryPrefix(n, unit) ==
    IF n # {} /\ Low(n, 30) = {}
    THEN <<Shr(n, 30), PrefixGi, unit, " (", n, unit, ")">>
    ELSE IF n # {} /\ Low(n, 20) = {}
    THEN <<Shr(n, 20), PrefixMi, unit, " (", n, unit, ")">>
    ELSE IF n # {} /\ Low(n, 10) = {}
    THEN <<Shr(n, 10), PrefixKi, unit, " (", n, unit, ")">>
    ELSE <<n, unit>>

(***************************************************************************)
(* The RAM size (ram.go).                                                  *)
(***************************************************************************)
\* Mutant: the shift is done in 32 bits.
RAMSizeString_Uint32(r) ==
    binaryPrefix(ShlW(Bits(And(r, 240)), And(r, 15) + 16, 32), "B")

\* RAMSize.String: binaryPrefix((uint64(r&0xf0))<<((uint(r&0xf))+16), "B")
RAMSizeString(r) ==
    binaryPrefix(Shl(Bits(And(r, 240)), And(r, 15) + 16), "B")

(***************************************************************************)
(* Little-endian fields and the flash sector size.                         *)
(***************************************************************************)
\* (uint16(b[0]) << 0) | (uint16(b[1]) << 8)
bytesToUint16(b) == Or(b[0] * 1, (b[1] * 256) % 65536)

\* FlashSector.Number, returning uint64.
FlashSectorNumber(f) ==
    LET z == bytesToUint16(f) IN
    IF And(z, 32768) # 0 THEN Shl(Bits(1), And(z, 32767)) ELSE Bits(z)

\* FlashSector.Number of the revision that returns uint16.
FlashSectorNumber16(f) ==
    LET z == bytesToUint16(f) IN
    IF And(z, 32768) # 0 THEN ShlW(Bits(1), And(z, 32767), 16) ELSE Bits(z)

\* FlashSector.String
FlashSectorString(f) == binaryPrefix(FlashSectorNumber(f), "B")

\* Mutant: the bytes are taken high byte first.
bytesToUint32_BigEndian(b) ==
    ShlW(Bits(b[0]), 24, 32) \cup ShlW(Bits(b[1]), 16, 32)
        \cup ShlW(Bits(b[2]), 8, 32) \cup ShlW(Bits(b[3]), 0, 32)

\* bytesToUint32: the uint32 as its set of 1 bits, | as the union.
bytesToUint32(b) ==
    ShlW(Bits(b[0]), 0, 32) \cup ShlW(Bits(b[1]), 8, 32)
        \cup ShlW(Bits(b[2]), 16, 32) \cup ShlW(Bits(b[3]), 24, 32)

\* FPGATransferred.Number
FPGATransferredNumber(f) == bytesToUint32(f)

\* FPGATransferred.String
FPGATransferredString(f) == binaryPrefix(FPGATransferredNumber(f), "B")

(***************************************************************************)
(* The configured flag of the FPGA state.                                  *)
(***************************************************************************)
\* FPGAConfigured.String
FPGAConfiguredString(f) ==
    CASE f = 0 -> "Configured"
      [] f = 1 -> "Unconfigured"
      [] OTHER -> "Unknown"

\* Mutant: every byte but 1 counts as configured.
FPGAConfiguredBool_NotOne(f) == f # 1

\* FPGAConfigured.Bool
FPGAConfiguredBool(f) == f = 0

\* FPGAConfigured.String of the older revision.
FPGAConfiguredStringOld(f) ==
    CASE f = 0 -> "Unconfigured"
      [] f = 1 -> "Configured"
      [] OTHER -> "Unknown"

\* FPGAConfigured.Bool of the older revision.
FPGAConfiguredBoolOld(f) == f = 1

(***************************************************************************)
(* The product identifier.                                                 *)
(***************************************************************************)
\* Mutant: the rule of module 1.11 stands before the rule of its sub-family.
DescriptorProductName_FamilyFirst(z) ==
    IF z[0] = 0 /\ z[1] = 0 /\ z[2] = 0 /\ z[3] = 0 THEN "Default"
    ELSE IF z[0] = 1 THEN "Experimental"
    ELSE IF z[0] = 10 /\ z[1] = 0 /\ z[2] = 1 /\ z[3] = 1 THEN "ZTEX BTCMiner"
    ELSE IF z[0] = 10 /\ z[1] = 11 THEN "ZTEX USB-FPGA Module 1.2"
    ELSE IF z[0] = 10 /\ z[1] = 12 THEN "ZTEX USB-FPGA Module 1.11"
    ELSE IF z[0] = 10 /\ z[1] = 12 /\ z[2] = 2 /\ (1 <= z[3] /\ z[3] <= 4) THEN "NIT"
    ELSE IF z[0] = 10 /\ z[1] = 13 THEN "ZTEX USB-FPGA Module 1.15"
    ELSE IF z[0] = 10 /\ z[1] = 14 THEN "ZTEX USB-FPGA Module 1.15x"
    ELSE IF z[0] = 10 /\ z[1] = 15 THEN "ZTEX USB-FPGA Module 1.15y"
    ELSE IF z[0] = 10 /\ z[1] = 16 THEN "ZTEX USB-FPGA Module 2.16"
    ELSE IF z[0] = 10 /\ z[1] = 17 THEN "ZTEX USB-FPGA Module 2.13"
    ELSE IF z[0] = 10 /\ z[1] = 18 THEN "ZTEX USB-FPGA Module 2.01"
    ELSE IF z[0] = 10 /\ z[1] = 19 THEN "ZTEX USB-FPGA Module 2.04"
    ELSE IF z[0] = 10 /\ z[1] = 20 THEN "ZTEX USB Module 1.0"
    ELSE IF z[0] = 10 /\ z[1] = 30 THEN "ZTEX USB-XMEGA Module 1.0"
    ELSE IF z[0] = 10 /\ z[1] = 40 THEN "ZTEX USB-FPGA Module 2.02"
    ELSE IF z[0] = 10 /\ z[1] = 41 THEN "ZTEX USB-FPGA Module 2.14"
    ELSE IF z[0] = 10 /\ z[1] = 42 THEN "ZTEX USB3-FPGA Module 2.18"
    ELSE IF z[0] = 10 THEN "ZTEX"
    ELSE "Unknown"

\* DescriptorProduct.String: the name p chosen by the switch.
DescriptorProductName(z) ==
    IF z[0] = 0 /\ z[1] = 0 /\ z[2] = 0 /\ z[3] = 0 THEN "Default"
    ELSE IF z[0] = 1 THEN "Experimental"
    ELSE IF z[0] = 10 /\ z[1] = 0 /\ z[2] = 1 /\ z[3] = 1 THEN "ZTEX BTCMiner"
    ELSE IF z[0] = 10 /\ z[1] = 11 THEN "ZTEX USB-FPGA Module 1.2"
    ELSE IF z[0] = 10 /\ z[1] = 12 /\ z[2] = 2 /\ (1 <= z[3] /\ z[3] <= 4) THEN "NIT"
    ELSE IF z[0] = 10 /\ z[1] = 12 THEN "ZTEX USB-FPGA Module 1.11"
    ELSE IF z[0] = 10 /\ z[1] = 13 THEN "ZTEX USB-FPGA Module 1.15"
    ELSE IF z[0] = 10 /\ z[1] = 14 THEN "ZTEX USB-FPGA Module 1.15x"
    ELSE IF z[0] = 10 /\ z[1] = 15 THEN "ZTEX USB-FPGA Module 1.15y"
    ELSE IF z[0] = 10 /\ z[1] = 16 THEN "ZTEX USB-FPGA Module 2.16"
    ELSE IF z[0] = 10 /\ z[1] = 17 THEN "ZTEX USB-FPGA Module 2.13"
    ELSE IF z[0] = 10 /\ z[1] = 18 THEN "ZTEX USB-FPGA Module 2.01"
    ELSE IF z[0] = 10 /\ z[1] = 19 THEN "ZTEX USB-FPGA Module 2.04"
    ELSE IF z[0] = 10 /\ z[1] = 20 THEN "ZTEX USB Module 1.0"
    ELSE IF z[0] = 10 /\ z[1] = 30 THEN "ZTEX USB-XMEGA Module 1.0"
    ELSE IF z[0] = 10 /\ z[1] = 40 THEN "ZTEX USB-FPGA Module 2.02"
    ELSE IF z[0] = 10 /\ z[1] = 41 THEN "ZTEX USB-FPGA Module 2.14"
    ELSE IF z[0] = 10 /\ z[1] = 42 THEN "ZTEX USB3-FPGA Module 2.18"
    ELSE IF z[0] = 10 THEN "ZTEX"
    ELSE "Unknown"

\* DescriptorProduct.String: "%v.%v.%v.%v [%v]"
DescriptorProductString(z) ==
    <<z[0], ".", z[1], ".", z[2], ".", z[3], " [", DescriptorProductName(z), "]">>

(***************************************************************************)
(* Trimmed byte fields.                                                    *)
(***************************************************************************)
\* Mutant: the second byte is tested before the first.
BoardVariantBytes_SecondFirst(b) ==
    IF b[1] = 0 THEN <<b[0]>>
    ELSE IF b[0] = 0 THEN <<>>
    ELSE <<b[0], b[1]>>

\* BoardVariant.Bytes
BoardVariantBytes(b) ==
    IF b[0] = 0 THEN <<>>
    ELSE IF b[1] = 0 THEN <<b[0]>>
    ELSE <<b[0], b[1]>>

\* BoardVariant.String: string(b.Bytes()), the text as its bytes.
BoardVariantString(b) == [i \in 1..Len(BoardVariantBytes(b)) |-> BoardVariantBytes(b)[i]]

\* DescriptorSerial.Bytes
DescriptorSerialBytes(z) ==
    <<z[0], z[1], z[2], z[3], z[4], z[5], z[6], z[7], z[8], z[9]>>

\* DescriptorSerial.String: string(d.Bytes()), the text as its bytes.
DescriptorSerialString(z) == [i \in 1..Len(DescriptorSerialBytes(z)) |-> DescriptorSerialBytes(z)[i]]

\* Mutant: the second byte is not tested.
FPGAGradeBytes_NoSecond(f) ==
    IF f[0] = 0 THEN <<>>
    ELSE IF f[2] = 0 THEN <<f[0], f[1]>>
    ELSE <<f[0], f[1], f[2]>>

\* FPGAGrade.Bytes
FPGAGradeBytes(f) ==
    IF f[0] = 0 THEN <<>>
    ELSE IF f[1] = 0 THEN <<f[0]>>
    ELSE IF f[2] = 0 THEN <<f[0], f[1]>>
    ELSE <<f[0], f[1], f[2]>>

\* FPGAGrade.String: string(f.Bytes()), the text as its bytes.
FPGAGradeString(f) == [i \in 1..Len(FPGAGradeBytes(f)) |-> FPGAGradeBytes(f)[i]]

(***************************************************************************)
(* The flash error code (flash.go).                                        *)
(***************************************************************************)
\* Mutant: the fallback text leaves the code out.
FlashErrorString_NoCode(f) ==
    CASE f = 0 -> <<"None">>
      [] f = 1 -> <<"Command Error">>
      [] f = 2 -> <<"Timeout Error">>
      [] f = 3 -> <<"Busy Error">>
      [] f = 4 -> <<"Pending Error">>
      [] f = 5 -> <<"Read Error">>
      [] f = 6 -> <<"Write Error">>
      [] f = 7 -> <<"Unsupported Error">>
      [] f = 8 -> <<"Runtime Error">>
      [] OTHER -> <<"Unknown Error">>

\* FlashError.String; the default case is "Unknown Error [%v]".
FlashErrorString(f) ==
    CASE f = 0 -> <<"None">>
      [] f = 1 -> <<"Command Error">>
      [] f = 2 -> <<"Timeout Error">>
      [] f = 3 -> <<"Busy Error">>
      [] f = 4 -> <<"Pending Error">>
      [] f = 5 -> <<"Read Error">>
      [] f = 6 -> <<"Write Error">>
      [] f = 7 -> <<"Unsupported Error">>
      [] f = 8 -> <<"Runtime Error">>
      [] OTHER -> <<"Unknown Error [", f, "]">>

(***************************************************************************)
(* Device options.                                                         *)
(***************************************************************************)
\* ControlTimeout(timeout): sets d.ControlTimeout and returns nil.
ControlTimeout(timeout) == [kind |-> "ControlTimeout", timeout |-> timeout]

\* Any other DeviceOption of the caller's, here one that returns an error.
FailingOption == [kind |-> "failing", timeout |-> 0]

DeviceOptions == {ControlTimeout(1), ControlTimeout(2), FailingOption}

OptionLists ==
    UNION {[1..n -> DeviceOptions] : n \in 0..MaxOptions}

\* o(d): the device as the option leaves it and the error it returns.
applyOption(o, dev) ==
    IF o.kind = "ControlTimeout"
    THEN [d |-> [dev EXCEPT !.ControlTimeout = o.timeout], err |-> Nil]
    ELSE [d |-> dev, err |-> Err("option", 0, 0)]

(***************************************************************************)
(* The first revision of the package: package variables, a flat Device and *)
(* an OpenDevice of three reads into one buffer.                           *)
(***************************************************************************)
\* var ControlTimeout = 1000 * time.Millisecond, in milliseconds.
InitialControlTimeout == 1000

\* The values the importing program may assign to the package variable.
LegacyTimeouts == {InitialControlTimeout, 250}

\* &Device{}; ProductName and SerialNumber are never assigned and left out,
\* ControlTimeout is the field of the embedded USB handle.
LegacyZeroDevice ==
    [FXVersion                      |-> 0,
     BoardSeries                    |-> 0,
     BoardNumber                    |-> 0,
     BoardVariant                   |-> Arr(<<0, 0>>),
     FastConfigurationEndpoint      |-> 0,
     FastConfigurationInterface     |-> 0,
     DefaultInterfaceMajorVersion   |-> 0,
     DefaultInterfaceMinorVersion   |-> 0,
     DefaultInterfaceOutputEndpoint |-> 0,
     DefaultInterfaceInputEndpoint  |-> 0,
     ControlTimeout                 |-> 0]

\* buf after a transfer: the bytes received overwrite its start, the rest
\* keeps what the transfers before left there.
LegacyReceived(buf, r) ==
    [i \in 0..127 |-> IF i < r.nbr THEN r.b[i] ELSE buf[i]]

\* The first bytes of an answer, the rest being a fill pattern.
LegacyData(s) ==
    [i \in 0..127 |-> IF i < Len(s) THEN s[i + 1] ELSE Fill(0, i)]

\* The answers to the three reads: a transport error, or a byte count with
\* that many bytes.  Request 0x64 answers nothing, 3 or 4 bytes or a full
\* buffer, with the endpoint bytes at both ends of their range.
FastConfigurationResponses ==
    {Response(TRUE, 0, Zeros(128))}
    \cup {Response(FALSE, n, LegacyData(<<6, 1>>)) : n \in {0, 2}}

MACEEPROMResponses ==
    {Response(TRUE, 0, Zeros(128))}
    \cup {Response(FALSE, n, LegacyData(<<67, 68, 48, 3, 2, 14, 98, 0>>)) :
            n \in {0, 128}}

DefaultInterfaceResponses ==
    {Response(TRUE, 0, Zeros(128))}
    \cup {Response(FALSE, n, LegacyData(<<1, b1, b2, 7>>)) :
            n \in {0, 3, 4, 128}, b1 \in {2, 255}, b2 \in {0, 4, 127, 255}}

\* OpenDevice, the branches on the byte count of request 0x64.
legacyDefaultInterface(dev, nbt, buf) ==
    IF nbt = 4
    THEN [dev EXCEPT !.DefaultInterfaceMajorVersion   = buf[0],
                     !.DefaultInterfaceMinorVersion   = buf[3],
                     !.DefaultInterfaceOutputEndpoint = And(buf[1], 127),
                     !.DefaultInterfaceInputEndpoint  = Or(buf[2], 128)]
    ELSE IF nbt = 3
    THEN [dev EXCEPT !.DefaultInterfaceMajorVersion   = buf[0],
                     !.DefaultInterfaceOutputEndpoint = And(buf[1], 127),
                     !.DefaultInterfaceInputEndpoint  = Or(buf[2], 128)]
    ELSE [dev EXCEPT !.DefaultInterfaceOutputEndpoint = 255,
                     !.DefaultInterfaceInputEndpoint  = 255]

\* What a call returned: the error, and "device" or "nil".
LegacyReturned(op, err, val) == [op |-> op, err |-> err, val |-> val]

\* OpenDevice(ctx) when the package variable ControlTimeout holds timeout,
\* OpenDeviceWithVIDPID returns res and the three reads are answered r1, r2
\* and r3: the Device built, the transfers issued with their answers, and
\* the result.  A nil device without an error is dereferenced: the call
\* panics.
legacyOpenDevice(timeout, res, r1, r2, r3) ==
    LET x1 == Xfer(192, 51, 0, 0, 128)
        x2 == Xfer(192, 59, 0, 0, 128)
        x3 == Xfer(192, 100, 0, 0, 128)
        d0 == [LegacyZeroDevice EXCEPT !.ControlTimeout = timeout]
        b1 == LegacyReceived(Zeros(128), r1)
        d1 == IF r1.nbr = 2
              THEN [d0 EXCEPT !.FastConfigurationEndpoint  = b1[0],
                              !.FastConfigurationInterface = b1[1]]
              ELSE d0
        b2 == LegacyReceived(b1, r2)
        d2 == IF r2.nbr = 128
              THEN [d1 EXCEPT !.FXVersion    = b2[3],
                              !.BoardSeries  = b2[4],
                              !.BoardNumber  = b2[5],
                              !.BoardVariant = Arr(<<b2[6], b2[7]>>)]
              ELSE [d1 EXCEPT !.BoardSeries = 255, !.BoardNumber = 255]
        b3 == LegacyReceived(b2, r3)
        d3 == legacyDefaultInterface(d2, r3.nbr, b3)
        failed(x, a, e) ==
            [d |-> LegacyZeroDevice, xfers |-> x, rsps |-> a,
             ret |-> LegacyReturned("OpenDevice", e, "nil")]
    IN  IF res = "err" THEN failed(<<>>, <<>>, Err("open", 0, 0))
        ELSE IF res = "nil" THEN failed(<<>>, <<>>, Err("panic", 0, 0))
        ELSE IF r1.err THEN failed(<<x1>>, <<r1>>, TransportErr)
        ELSE IF r2.err THEN failed(<<x1, x2>>, <<r1, r2>>, TransportErr)
        ELSE IF r3.err THEN failed(<<x1, x2, x3>>, <<r1, r2, r3>>, TransportErr)
        ELSE [d |-> d3, xfers |-> <<x1, x2, x3>>, rsps |-> <<r1, r2, r3>>,
              ret |-> LegacyReturned("OpenDevice", Nil, "device")]

\* The package as loaded: ControlTimeout as declared, no call made.
LegacyStart ==
    [ControlTimeout |-> InitialControlTimeout,
     d     |-> LegacyZeroDevice,
     xfers |-> <<>>,
     rsps  |-> <<>>,
     ret   |-> LegacyReturned("none", Nil, "nil")]

(***************************************************************************)
(* The state machine.                                                      *)
(***************************************************************************)
\* No control transfer was answered.
NoResponse == Response(FALSE, -1, <<>>)

Returned(op, err, val) == [op |-> op, err |-> err, val |-> val]

\* A codec call: the function and the tuple of its arguments, or of its
\* results.
Codec(op, val) == [op |-> op, val |-> val]

NoArg == Codec("none", <<>>)

Init ==
    /\ pc = "idle"
    /\ d = ZeroDevice
    /\ opened = FALSE
    /\ opt = <<>>
    /\ xfers = <<>>
    /\ rsp = NoResponse
    /\ ret = Returned("none", Nil, "nil")
    /\ arg = NoArg
    /\ out = NoArg
    /\ devs = <<>>
    /\ leg = LegacyStart

\* OpenDevice fails: it returns nil and err.
openFailed(err) ==
    /\ pc' = "idle"
    /\ opened' = FALSE
    /\ ret' = Returned("OpenDevice", err, "nil")

\* OpenDevice, up to ctx.OpenDeviceWithVIDPID, which returns an error, a nil
\* device or a device.
OpenDevice ==
    /\ pc = "idle"
    /\ ~opened
    /\ \E res \in {"err", "nil", "dev"}, o \in OptionLists :
        /\ d' = ZeroDevice
        /\ opt' = o
        /\ xfers' = <<>>
        /\ rsp' = NoResponse
        /\ IF res = "dev"
           THEN /\ pc' = "readDescriptorConfig"
                /\ opened' = FALSE
                /\ ret' = Returned("OpenDevice", Nil, "pending")
           ELSE openFailed(Err("open", res, "dev"))
    /\ UNCHANGED <<arg, out, devs, leg>>

\* Mutant: a refused descriptor is asked for a second time.
ReadDescriptorConfig_Retry ==
    /\ pc = "readDescriptorConfig"
    /\ \E r \in DescriptorResponses :
        LET x == readDescriptorConfig(d, r) IN
        /\ d' = x.d
        /\ xfers' = Append(xfers, Xfer(192, 34, 0, 0, 40))
        /\ rsp' = r
        /\ IF x.err.kind = "nil"
           THEN pc' = "readDeviceConfig" /\ UNCHANGED <<opened, ret>>
           ELSE IF xfers = <<>>
           THEN UNCHANGED <<pc, opened, ret>>
           ELSE openFailed(x.err)
    /\ UNCHANGED <<opt, arg, out, devs, leg>>

\* OpenDevice: d.readDescriptorConfig().
ReadDescriptorConfig ==
    /\ pc = "readDescriptorConfig"
    /\ \E r \in DescriptorResponses :
        LET x == readDescriptorConfig(d, r) IN
        /\ d' = x.d
        /\ xfers' = Append(xfers, Xfer(192, 34, 0, 0, 40))
        /\ rsp' = r
        /\ IF x.err.kind = "nil"
           THEN pc' = "readDeviceConfig" /\ UNCHANGED <<opened, ret>>
           ELSE openFailed(x.err)
    /\ UNCHANGED <<opt, arg, out, devs, leg>>

\* OpenDevice: d.readDeviceConfig().
ReadDeviceConfig ==
    /\ pc = "readDeviceConfig"
    /\ \E r \in ConfigResponses :
        LET x == readDeviceConfig(d, r) IN
        /\ d' = x.d
        /\ xfers' = Append(xfers, Xfer(192, 59, 0, 0, 128))
        /\ rsp' = r
        /\ IF x.err.kind = "nil"
           THEN pc' = "options" /\ UNCHANGED <<opened, ret>>
           ELSE openFailed(x.err)
    /\ UNCHANGED <<opt, arg, out, devs, leg>>

\* Mutant: the error of an option is dropped and the loop goes on.
ApplyOption_Continue ==
    /\ pc = "options"
    /\ opt # <<>>
    /\ LET x == applyOption(Head(opt), d) IN
        /\ d' = x.d
        /\ opt' = Tail(opt)
        /\ UNCHANGED <<pc, opened, ret>>
    /\ UNCHANGED <<xfers, rsp, arg, out, devs, leg>>

\* OpenDevice: one turn of the loop over opt.
ApplyOption ==
    /\ pc = "options"
    /\ opt # <<>>
    /\ LET x == applyOption(Head(opt), d) IN
        /\ d' = x.d
        /\ opt' = Tail(opt)
        /\ IF x.err.kind = "nil"
           THEN UNCHANGED <<pc, opened, ret>>
           ELSE openFailed(x.err)
    /\ UNCHANGED <<xfers, rsp, arg, out, devs, leg>>

\* OpenDevice: return d, nil.
OpenDeviceReturn ==
    /\ pc = "options"
    /\ opt = <<>>
    /\ pc' = "idle"
    /\ opened' = TRUE
    /\ ret' = Returned("OpenDevice", Nil, "device")
    /\ UNCHANGED <<d, opt, xfers, rsp, arg, out, devs, leg>>

\* (*Device).Close: the client releases the handle and the Device with it.
Close ==
    /\ pc = "idle"
    /\ opened
    /\ opened' = FALSE
    /\ xfers' = <<>>
    /\ rsp' = NoResponse
    /\ ret' = Returned("Close", Nil, "nil")
    /\ UNCHANGED <<pc, d, opt, arg, out, devs, leg>>

\* Mutant: a successful ResetFPGA forgets the FPGA configuration and the
\* FPGA capability of the device.
command_Forgets(op, c, r) ==
    /\ xfers' = c.xfers
    /\ rsp' = IF c.xfers = <<>> THEN NoResponse ELSE r
    /\ ret' = Returned(op, c.err, c.val)
    /\ d' = IF op = "ResetFPGA" /\ c.err.kind = "nil"
            THEN [d EXCEPT !.FPGAConfig = ZeroFPGAConfig,
                           !.DescriptorConfig.DescriptorCapability[0] = 0]
            ELSE d
    /\ UNCHANGED <<pc, opened, opt, arg, out, devs, leg>>

\* The effect of a method call on the open device: c is what the method does.
command(op, c, r) ==
    /\ xfers' = c.xfers
    /\ rsp' = IF c.xfers = <<>> THEN NoResponse ELSE r
    /\ ret' = Returned(op, c.err, c.val)
    /\ UNCHANGED <<pc, d, opened, opt, arg, out, devs, leg>>

CallResetFX3 ==
    /\ pc = "idle" /\ opened
    /\ \E r \in ResetResponses : command("ResetFX3", ResetFX3(d, r), r)

CallResetFPGA ==
    /\ pc = "idle" /\ opened
    /\ \E r \in ResetResponses : command("ResetFPGA", ResetFPGA(d, r), r)

CallResetDefaultFirmware ==
    /\ pc = "idle" /\ opened
    /\ \E r \in ResetResponses :
        command("ResetDefaultFirmware", ResetDefaultFirmware(d, r), r)

CallFPGAStatus ==
    /\ pc = "idle" /\ opened
    /\ \E r \in FPGAStatusResponses : command("FPGAStatus", FPGAStatus(d, r), r)

CallFlashStatus ==
    /\ pc = "idle" /\ opened
    /\ \E r \in FlashStatusResponses : command("FlashStatus", FlashStatus(d, r), r)

Next ==
    \/ OpenDevice
    \/ ReadDescriptorConfig
    \/ ReadDeviceConfig
    \/ ApplyOption
    \/ OpenDeviceReturn
    \/ Close
    \/ CallResetFX3
    \/ CallResetFPGA
    \/ CallResetDefaultFirmware
    \/ CallFPGAStatus
    \/ CallFlashStatus

Spec == Init /\ [][Next]_vars

(***************************************************************************)
(* The codec specification: the pure functions applied to inputs drawn     *)
(* from bounded sets.                                                      *)
(***************************************************************************)
\* Bit positions around the three scales and at the ends of the word.
InputBits == {0, 9, 10, 11, 19, 20, 21, 29, 30, 31, 32, 40, 63}

Uint64Inputs == {n \in SUBSET InputBits : Cardinality(n) <= MaxBits}

\* Sector fields {lo, hi}, with and without the top bit of hi.
SectorInputs ==
    {Arr(<<lo, hi>>) : lo \in {0, 1, 12, 15, 16, 63, 64, 255},
                       hi \in {0, 16, 127, 128, 129, 255}}

codecCall(op, a, r) ==
    /\ arg' = Codec(op, a)
    /\ out' = Codec(op, r)
    /\ UNCHANGED <<pc, d, opened, opt, xfers, rsp, ret, devs, leg>>

CodecBinaryPrefix ==
    /\ pc = "idle"
    /\ \E n \in Uint64Inputs :
        codecCall("binaryPrefix", <<n, "B">>, binaryPrefix(n, "B"))

CodecFlashSector ==
    /\ pc = "idle"
    /\ \E f \in SectorInputs :
        codecCall("FlashSector", <<f>>,
                  <<FlashSectorNumber(f), FlashSectorNumber16(f),
                    FlashSectorString(f)>>)

\* Variant bytes: absent, a letter, a digit, the largest byte.
VariantInputs == {Arr(<<a, b>>) : a \in {0, 49, 98, 255}, b \in {0, 49, 98, 255}}

CodecBoardVariant ==
    /\ pc = "idle"
    /\ \E b \in VariantInputs :
        codecCall("BoardVariant", <<b>>,
                  <<BoardVariantBytes(b), BoardVariantString(b)>>)

\* Serials: digits with NUL bytes at the listed offsets.
SerialInputs ==
    {[i \in 0..9 |-> IF i \in z THEN 0 ELSE 48 + i] :
        z \in (SUBSET {0, 4, 9}) \cup {4..9, 0..9}}

CodecDescriptorSerial ==
    /\ pc = "idle"
    /\ \E z \in SerialInputs :
        codecCall("DescriptorSerial", <<z>>,
                  <<DescriptorSerialBytes(z), DescriptorSerialString(z)>>)

\* Transferred fields: the spec's example, the ends of the range, bytes that
\* all differ, the top bit alone.
TransferredInputs ==
    {<<0, 0, 1, 0>>, <<0, 0, 0, 0>>, <<255, 255, 255, 255>>,
     <<120, 86, 52, 18>>, <<0, 0, 0, 128>>, <<1, 0, 0, 0>>, <<0, 4, 0, 0>>}

\* A 9-byte FPGA state is decoded and its transferred count is taken.
CodecFPGATransferred ==
    /\ pc = "idle"
    /\ \E t \in TransferredInputs :
        LET b == Arr(<<1, 17, t[1], t[2], t[3], t[4], 33, 44, 55>>)
            z == decodeFPGAStatus(b)
        IN  codecCall("FPGATransferred", <<b>>,
                      <<z.FPGATransferred,
                        FPGATransferredNumber(z.FPGATransferred),
                        FPGATransferredString(z.FPGATransferred)>>)

\* The byte values that mean "configured" in the two firmware conventions.
Conventions == {0, 1}

\* The configured flag f of a firmware whose convention is p is decoded;
\* FPGAConfigured is a uint8 and its methods take no argument, so p does not
\* reach them.
CodecFPGAConfigured ==
    /\ pc = "idle"
    /\ \E f \in {0, 1, 2, 255}, p \in Conventions :
        codecCall("FPGAConfigured", <<"convention", p, f>>,
                  <<FPGAConfiguredBool(f), FPGAConfiguredString(f),
                    FPGAConfiguredBoolOld(f), FPGAConfiguredStringOld(f)>>)

\* Product identifiers: every first byte the switch tests and two it does
\* not, every second byte of the table and four outside it, and third and
\* fourth bytes around the sub-family rules.
ProductInputs ==
    {Arr(<<a, b, c, e>>) :
        a \in {0, 1, 2, 10, 255},
        b \in {0, 1, 10, 11, 12, 13, 14, 15, 16, 17, 18, 19, 20, 21, 30, 40,
               41, 42, 43},
        c \in {0, 1, 2},
        e \in {0, 1, 4, 5}}

CodecDescriptorProduct ==
    /\ pc = "idle"
    /\ \E z \in ProductInputs :
        codecCall("DescriptorProduct", <<z>>,
                  <<DescriptorProductName(z), DescriptorProductString(z)>>)

\* Capability arrays: nothing set, everything set, each bit of the 6 bytes
\* alone, and everything but that bit.
CapabilityInputs ==
    {Zeros(6), [i \in 0..5 |-> 255]}
    \cup {[i \in 0..5 |-> IF i = k THEN 2^j ELSE 0] : k \in 0..5, j \in 0..7}
    \cup {[i \in 0..5 |-> IF i = k THEN 255 - 2^j ELSE 255] : k \in 0..5, j \in 0..7}

CodecDescriptorCapability ==
    /\ pc = "idle"
    /\ \E z \in CapabilityInputs :
        codecCall("DescriptorCapability", <<z>>, <<DescriptorCapabilityString(z)>>)

\* Every RAM size byte.
RAMSizeInputs == 0..255

CodecRAMSize ==
    /\ pc = "idle"
    /\ \E r \in RAMSizeInputs :
        codecCall("RAMSize", <<Arr(<<r>>)>>, <<RAMSizeString(r)>>)

\* Every flash error byte.
FlashErrorInputs == 0..255

CodecFlashError ==
    /\ pc = "idle"
    /\ \E f \in FlashErrorInputs :
        codecCall("FlashError", <<Arr(<<f>>)>>, <<FlashErrorString(f)>>)

\* Grade bytes: absent, a digit, a letter, the largest byte.
GradeInputs ==
    {Arr(<<a, b, c>>) : a \in {0, 49, 67, 255}, b \in {0, 49, 67, 255},
                        c \in {0, 49, 67, 255}}

CodecFPGAGrade ==
    /\ pc = "idle"
    /\ \E f \in GradeInputs :
        codecCall("FPGAGrade", <<f>>, <<FPGAGradeBytes(f), FPGAGradeString(f)>>)

NextCodec ==
    \/ CodecBinaryPrefix
    \/ CodecFlashSector
    \/ CodecBoardVariant
    \/ CodecDescriptorSerial
    \/ CodecFPGATransferred
    \/ CodecFPGAConfigured
    \/ CodecDescriptorProduct
    \/ CodecDescriptorCapability
    \/ CodecRAMSize
    \/ CodecFlashError
    \/ CodecFPGAGrade

SpecCodec == Init /\ [][NextCodec]_vars

(***************************************************************************)
(* The two-device specification: two Device values on different handles,   *)
(* their command calls interleaved in every order.                         *)
(***************************************************************************)
Handles == {1, 2}

\* The Device OpenDevice returns for a descriptor with the capability bytes
\* c0 and c1.
OpenedDevice(c0, c1) ==
    [ZeroDevice EXCEPT
        !.DescriptorConfig = decodeDescriptorConfig(DescriptorData(40, 1, c0, c1, 0))]

\* Capability bytes 0 and 1 of a handle's device: no gate open, all open,
\* the FPGA and FX3 gates alone, the flash and default firmware gates alone.
HandleCapabilities == {<<0, 0>>, <<255, 255>>, <<2, 4>>, <<4, 16>>}

\* A handle before its first call.
Handle(dev) ==
    [d |-> dev, xfers |-> <<>>, rsp |-> NoResponse,
     ret |-> Returned("none", Nil, "nil")]

InitDevices ==
    /\ pc = "idle"
    /\ d = ZeroDevice
    /\ opened = FALSE
    /\ opt = <<>>
    /\ xfers = <<>>
    /\ rsp = NoResponse
    /\ ret = Returned("none", Nil, "nil")
    /\ arg = NoArg
    /\ out = NoArg
    /\ leg = LegacyStart
    /\ \E c1 \in HandleCapabilities, c2 \in HandleCapabilities :
        devs = <<Handle(OpenedDevice(c1[1], c1[2])),
                 Handle(OpenedDevice(c2[1], c2[2]))>>

\* A command method returns on handle i: c is what it issued and returned,
\* r the transport's answer.
handleCommand(i, op, c, r) ==
    /\ devs' = [devs EXCEPT
                   ![i].xfers = c.xfers,
                   ![i].rsp = IF c.xfers = <<>> THEN NoResponse ELSE r,
                   ![i].ret = Returned(op, c.err, c.val)]
    /\ UNCHANGED <<pc, d, opened, opt, xfers, rsp, ret, arg, out, leg>>

HandleResetFX3 ==
    /\ pc = "idle"
    /\ \E i \in Handles, r \in ResetResponses :
        handleCommand(i, "ResetFX3", ResetFX3(devs[i].d, r), r)

HandleResetFPGA ==
    /\ pc = "idle"
    /\ \E i \in Handles, r \in ResetResponses :
        handleCommand(i, "ResetFPGA", ResetFPGA(devs[i].d, r), r)

HandleResetDefaultFirmware ==
    /\ pc = "idle"
    /\ \E i \in Handles, r \in ResetResponses :
        handleCommand(i, "ResetDefaultFirmware", ResetDefaultFirmware(devs[i].d, r), r)

HandleFPGAStatus ==
    /\ pc = "idle"
    /\ \E i \in Handles, r \in FPGAStatusResponses :
        handleCommand(i, "FPGAStatus", FPGAStatus(devs[i].d, r), r)

HandleFlashStatus ==
    /\ pc = "idle"
    /\ \E i \in Handles, r \in FlashStatusResponses :
        handleCommand(i, "FlashStatus", FlashStatus(devs[i].d, r), r)

NextDevices ==
    \/ HandleResetFX3
    \/ HandleResetFPGA
    \/ HandleResetDefaultFirmware
    \/ HandleFPGAStatus
    \/ HandleFlashStatus

SpecDevices == InitDevices /\ [][NextDevices]_vars

(***************************************************************************)
(* The specification of the first revision.                                *)
(***************************************************************************)
\* The importing program assigns to the package variable ControlTimeout.
LegacySetControlTimeout ==
    /\ pc = "idle"
    /\ \E t \in LegacyTimeouts \ {leg.ControlTimeout} :
        leg' = [leg EXCEPT !.ControlTimeout = t]
    /\ UNCHANGED <<pc, d, opened, opt, xfers, rsp, ret, arg, out, devs>>

\* OpenDevice(ctx), from the call to the return.
LegacyOpenDevice ==
    /\ pc = "idle"
    /\ \E res \in {"err", "nil", "dev"}, r1 \in FastConfigurationResponses,
          r2 \in MACEEPROMResponses, r3 \in DefaultInterfaceResponses :
        LET x == legacyOpenDevice(leg.ControlTimeout, res, r1, r2, r3) IN
        leg' = [leg EXCEPT !.d = x.d, !.xfers = x.xfers, !.rsps = x.rsps,
                           !.ret = x.ret]
    /\ UNCHANGED <<pc, d, opened, opt, xfers, rsp, ret, arg, out, devs>>

\* (*Device).Close: return d.Device.Close()
LegacyClose ==
    /\ pc = "idle"
    /\ leg.ret.val = "device"
    /\ leg' = [leg EXCEPT !.xfers = <<>>, !.rsps = <<>>,
                          !.ret = LegacyReturned("Close", Nil, "nil")]
    /\ UNCHANGED <<pc, d, opened, opt, xfers, rsp, ret, arg, out, devs>>

NextLegacy ==
    \/ LegacySetControlTimeout
    \/ LegacyOpenDevice
    \/ LegacyClose

SpecLegacy == Init /\ [][NextLegacy]_vars

(***************************************************************************)
(* Properties.  They speak of the capability bits, the byte offsets and    *)
(* the arithmetic in the terms of the specification, not in the operators  *)
(* the model of the code is written with.                                  *)
(***************************************************************************)
\* Bit i.j of a capability array, arithmetically.
CapBit(z, i, j) == (z[i] \div (2^j)) % 2

DeviceCapability == d.DescriptorConfig.DescriptorCapability

\* The reset commands: capability bit, request code, value parameter.
Resets ==
    {[op |-> "ResetFPGA",            i |-> 0, j |-> 1, request |-> 49,  val |-> 0],
     [op |-> "ResetFX3",             i |-> 1, j |-> 2, request |-> 161, val |-> 1],
     [op |-> "ResetDefaultFirmware", i |-> 1, j |-> 4, request |-> 96,  val |-> 0]}

CommandOps ==
    {"ResetFPGA", "ResetFX3", "ResetDefaultFirmware", "FPGAStatus", "FlashStatus"}

\* C1: a reset command whose capability bit (0.1 for ResetFPGA, 1.2 for
\* ResetFX3, 1.4 for ResetDefaultFirmware) is 0 returns the error "operation
\* not supported" and issues no control transfer, whatever the other bits are.
C1_ResetUnsupported ==
    \A c \in Resets :
        (ret.op = c.op /\ CapBit(DeviceCapability, c.i, c.j) = 0)
            => /\ ret.err.kind = "operation not supported"
               /\ Len(xfers) = 0

\* ResetDefaultFirmware refused on a device whose every other capability bit
\* of byte 1 is set.
C1_Witness ==
    /\ ret.op = "ResetDefaultFirmware"
    /\ DeviceCapability[1] = 235
    /\ ret.err.kind = "operation not supported"
    /\ xfers = <<>>

\* C2: a reset command whose capability bit is 1 issues exactly the vendor
\* request 0x40 with its code (0x31, 0xa1 with value 1, 0x60), index 0 and an
\* empty buffer, and returns nil iff the transport reports no error and 0
\* bytes; a transport error or a non-zero byte count is returned as an error.
C2_ResetRequest ==
    \A c \in Resets :
        (ret.op = c.op /\ CapBit(DeviceCapability, c.i, c.j) = 1)
            => /\ xfers = <<[rType |-> 64, request |-> c.request, val |-> c.val,
                             idx |-> 0, len |-> 0]>>
               /\ (ret.err.kind = "nil") <=> (~rsp.err /\ rsp.nbr = 0)
               /\ rsp.err => ret.err.kind = "transport"
               /\ (~rsp.err /\ rsp.nbr # 0) =>
                      (ret.err.kind = "bytes" /\ ret.err.got = rsp.nbr)

\* ResetFX3 answered without error but with one byte.
C2_Witness ==
    /\ ret.op = "ResetFX3"
    /\ CapBit(DeviceCapability, 1, 2) = 1
    /\ ~rsp.err /\ rsp.nbr = 1
    /\ ret.err.kind = "bytes"

\* C3: a call of ResetFPGA, ResetFX3, ResetDefaultFirmware, FPGAStatus or
\* FlashStatus issues at most one control transfer, whatever its outcome.
C3_AtMostOneTransfer ==
    ret.op \in CommandOps => Len(xfers) <= 1

\* FPGAStatus answered with 8 bytes instead of 9: one transfer, no retry.
C3_Witness ==
    /\ ret.op = "FPGAStatus"
    /\ ~rsp.err /\ rsp.nbr = 8
    /\ ret.err.kind = "bytes"
    /\ Len(xfers) = 1

\* rsp is the answer to the descriptor read of the OpenDevice under way or
\* just failed.
DescriptorRead ==
    /\ Len(xfers) = 1
    /\ xfers[1].request = 34
    /\ rsp # NoResponse

OpenDeviceFailedWith(kind) ==
    /\ pc = "idle"
    /\ ~opened
    /\ ret.op = "OpenDevice"
    /\ ret.val = "nil"
    /\ ret.err.kind = kind

\* C4: the descriptor read checks the byte count (40), then byte 0 (40),
\* then byte 1 (1); the first check that fails is the error returned, and on
\* any failure the DescriptorConfig of the device keeps its zero value.
C4_DescriptorValidation ==
    (DescriptorRead /\ ~rsp.err) =>
        /\ rsp.nbr # 40 => OpenDeviceFailedWith("bytes")
        /\ (rsp.nbr = 40 /\ rsp.b[0] # 40) => OpenDeviceFailedWith("size")
        /\ (rsp.nbr = 40 /\ rsp.b[0] = 40 /\ rsp.b[1] # 1)
               => OpenDeviceFailedWith("version")
        /\ (rsp.nbr = 40 /\ rsp.b[0] = 40 /\ rsp.b[1] = 1)
               => pc = "readDeviceConfig"
        /\ pc = "idle" => d.DescriptorConfig = ZeroDescriptorConfig

\* A descriptor wrong in both byte 0 and byte 1 is refused for its size.
C4_Witness ==
    /\ DescriptorRead
    /\ rsp.nbr = 40 /\ rsp.b[0] = 41 /\ rsp.b[1] = 2
    /\ OpenDeviceFailedWith("size")
    /\ d.DescriptorConfig = ZeroDescriptorConfig

\* An array of n bytes as a sequence.
Bytes(a, n) == [i \in 1..n |-> a[i - 1]]

\* The raw fields of a DescriptorConfig in layout order.
Reencode(c) ==
    <<c.DescriptorSize, c.DescriptorVersion>>
    \o Bytes(c.DescriptorMagic, 4)
    \o Bytes(c.DescriptorProduct, 4)
    \o <<c.DescriptorFirmware, c.DescriptorInterface>>
    \o Bytes(c.DescriptorCapability, 6)
    \o Bytes(c.DescriptorModule, 12)
    \o Bytes(c.DescriptorSerial, 10)

\* C5: for a 40-byte buffer with byte 0 = 40 and byte 1 = 1, the raw fields
\* of the decoded descriptor, concatenated in layout order, are the buffer.
C5_DescriptorRoundTrip ==
    (DescriptorRead /\ pc = "readDeviceConfig") =>
        Reencode(d.DescriptorConfig) = Bytes(rsp.b, 40)

\* A descriptor whose 40 bytes all differ has been decoded.
C5_Witness ==
    /\ DescriptorRead
    /\ pc = "readDeviceConfig"
    /\ \A i, j \in 0..39 : i # j => rsp.b[i] # rsp.b[j]
    /\ d.DescriptorConfig.DescriptorSerial[9] = rsp.b[39]

\* rsp is the answer to the configuration read of the OpenDevice under way
\* or just ended.
ConfigRead ==
    /\ Len(xfers) = 2
    /\ xfers[2].request = 59
    /\ rsp # NoResponse

SignatureOK == rsp.b[0] = 67 /\ rsp.b[1] = 68 /\ rsp.b[2] = 48

ConfigsUnassigned ==
    /\ d.BoardConfig = ZeroBoardConfig
    /\ d.FPGAConfig = ZeroFPGAConfig
    /\ d.RAMConfig = ZeroRAMConfig
    /\ d.BitstreamConfig = ZeroBitstreamConfig

\* C6: the configuration read fails when the byte count is not 128 or bytes
\* 0..2 are not 'C', 'D', '0', and on such a failure none of BoardConfig,
\* FPGAConfig, RAMConfig and BitstreamConfig is assigned.
C6_ConfigValidation ==
    (ConfigRead /\ ~rsp.err) =>
        /\ rsp.nbr # 128 => (OpenDeviceFailedWith("bytes") /\ ConfigsUnassigned)
        /\ (rsp.nbr = 128 /\ ~SignatureOK)
               => /\ OpenDeviceFailedWith("signature")
                  /\ ret.err.got = <<rsp.b[0], rsp.b[1], rsp.b[2]>>
                  /\ ConfigsUnassigned

\* A configuration whose signature is wrong in its last byte only.
C6_Witness ==
    /\ ConfigRead
    /\ rsp.nbr = 128
    /\ rsp.b[0] = 67 /\ rsp.b[1] = 68 /\ rsp.b[2] = 0
    /\ OpenDeviceFailedWith("signature")
    /\ ConfigsUnassigned

\* C7: for a 128-byte buffer signed 'CD0' the decoded configuration holds
\* the raw bytes at the fixed offsets; variant and grade keep all their
\* bytes, zero bytes and the bytes after a zero byte included.
C7_ConfigOffsets ==
    (ConfigRead /\ ~rsp.err /\ rsp.nbr = 128 /\ SignatureOK) =>
        LET b == rsp.b IN
        /\ d.BoardConfig.BoardType = b[3]
        /\ d.BoardConfig.BoardVersion.BoardSeries = b[4]
        /\ d.BoardConfig.BoardVersion.BoardNumber = b[5]
        /\ Bytes(d.BoardConfig.BoardVersion.BoardVariant, 2) = <<b[6], b[7]>>
        /\ Bytes(d.FPGAConfig.FPGAType, 2) = <<b[8], b[9]>>
        /\ d.FPGAConfig.FPGAPackage = b[10]
        /\ Bytes(d.FPGAConfig.FPGAGrade, 3) = <<b[11], b[12], b[13]>>
        /\ d.RAMConfig.RAMSize = b[14]
        /\ d.RAMConfig.RAMType = b[15]
        /\ Bytes(d.BitstreamConfig.BitstreamSize, 2) = <<b[26], b[27]>>
        /\ Bytes(d.BitstreamConfig.BitstreamCapacity, 2) = <<b[28], b[29]>>
        /\ Bytes(d.BitstreamConfig.BitstreamStart, 2) = <<b[30], b[31]>>

\* A grade with a zero byte in the middle and a variant with a zero byte at
\* the end are kept whole.
C7_Witness ==
    /\ ConfigRead
    /\ pc = "options"
    /\ Bytes(d.FPGAConfig.FPGAGrade, 3) = <<50, 0, 67>>
    /\ Bytes(d.BoardConfig.BoardVersion.BoardVariant, 2) = <<98, 0>>
    /\ d.BitstreamConfig.BitstreamStart[1] = rsp.b[31]

\* The status reads and the length of their answers.
StatusReads == {[op |-> "FPGAStatus", n |-> 9], [op |-> "FlashStatus", n |-> 8]}

\* C14: a status read returns a status only when the transport returned
\* exactly the fixed length (9 bytes for FPGA status, 8 for flash status);
\* for any other byte count or a transport failure the call returns an error
\* and a nil status.
C14_StatusFixedLength ==
    \A q \in StatusReads :
        ret.op = q.op =>
            LET ok == xfers # <<>> /\ ~rsp.err /\ rsp.nbr = q.n IN
            /\ ret.val # NilStatus <=> ok
            /\ ret.err.kind = "nil" <=> ok
            /\ ok => Len(ret.val) = 1

\* An FPGA status read that got 8 bytes returns an error and no status.
C14_Witness ==
    /\ ret.op = "FPGAStatus"
    /\ xfers # <<>>
    /\ ~rsp.err
    /\ rsp.nbr = 8
    /\ ret.err.kind = "bytes"
    /\ ret.val = NilStatus

\* OpenDevice has just returned the error of a refused answer.
DecodeFailed ==
    /\ pc = "idle"
    /\ ret.op = "OpenDevice"
    /\ ret.err.kind \in {"bytes", "size", "version", "signature"}

\* C19: every failed decode returns an error that carries the observed and
\* the expected value of the check that failed: the byte counts for a length
\* failure, byte 0 and 40 for a self-size failure, byte 1 and 1 for a
\* version failure, bytes 0..2 and 'C','D','0' for a signature failure.
C19_ErrorContext ==
    /\ (DescriptorRead /\ DecodeFailed) =>
           /\ ret.err.kind \in {"bytes", "size", "version"}
           /\ ret.err.kind = "bytes" =>
                  (ret.err.got = rsp.nbr /\ ret.err.want = 40)
           /\ ret.err.kind = "size" =>
                  (ret.err.got = rsp.b[0] /\ ret.err.want = 40)
           /\ ret.err.kind = "version" =>
                  (ret.err.got = rsp.b[1] /\ ret.err.want = 1)
    /\ (ConfigRead /\ DecodeFailed) =>
           /\ ret.err.kind \in {"bytes", "signature"}
           /\ ret.err.kind = "bytes" =>
                  (ret.err.got = rsp.nbr /\ ret.err.want = 128)
           /\ ret.err.kind = "signature" =>
                  /\ ret.err.got = <<rsp.b[0], rsp.b[1], rsp.b[2]>>
                  /\ ret.err.want = <<67, 68, 48>>

\* An OpenDevice call is under way or was the last call to return.
InOpenDevice == pc # "idle" \/ ret.op = "OpenDevice"

\* OpenDevice has returned a nil device and an error of the given kinds.
OpenDeviceRefused(kinds) ==
    /\ pc = "idle"
    /\ ~opened
    /\ ret.val = "nil"
    /\ ret.err.kind \in kinds

\* C20: no failure is retried: within one OpenDevice call each of the
\* requests 0x22 and 0x3B is issued at most once, and after the first failure
\* (transport error, wrong length, bad self-size or version, bad signature)
\* no further transfer is issued and OpenDevice returns that error with a
\* nil device.
C20_NoRetry ==
    InOpenDevice =>
        /\ \A code \in {34, 59} :
               Cardinality({i \in 1..Len(xfers) : xfers[i].request = code}) <= 1
        /\ \A i \in 1..Len(xfers) : xfers[i].request = (IF i = 1 THEN 34 ELSE 59)
        /\ (DescriptorRead /\ rsp.err) => OpenDeviceRefused({"transport"})
        /\ (DescriptorRead /\ ~rsp.err
              /\ (rsp.nbr # 40 \/ rsp.b[0] # 40 \/ rsp.b[1] # 1))
               => OpenDeviceRefused({"bytes", "size", "version"})
        /\ (ConfigRead /\ rsp.err) => OpenDeviceRefused({"transport"})
        /\ (ConfigRead /\ ~rsp.err /\ (rsp.nbr # 128 \/ ~SignatureOK))
               => OpenDeviceRefused({"bytes", "signature"})

\* OpenDevice has returned the signature error after its two transfers.
C20_Witness ==
    /\ ConfigRead
    /\ ~rsp.err /\ rsp.nbr = 128 /\ ~SignatureOK
    /\ OpenDeviceRefused({"signature"})
    /\ Len(xfers) = 2
    /\ xfers[1].request = 34 /\ xfers[2].request = 59

\* The raw bytes of a decoded FPGA status, in layout order.
ReencodeFPGAStatus(z) ==
    <<z.FPGAConfigured, z.FPGAChecksum>> \o Bytes(z.FPGATransferred, 4)
    \o <<z.FPGAInit, z.FPGAResult, z.FPGASwapped>>

\* The raw bytes of a decoded flash status, in layout order.
ReencodeFlashStatus(z) ==
    <<z.FlashEnabled>> \o Bytes(z.FlashSector, 2) \o Bytes(z.FlashCount, 4)
    \o <<z.FlashError>>

\* The raw bytes of the decoded configuration of the device, offsets 3..15
\* and 26..31.
ReencodeConfig ==
    <<d.BoardConfig.BoardType, d.BoardConfig.BoardVersion.BoardSeries,
      d.BoardConfig.BoardVersion.BoardNumber>>
    \o Bytes(d.BoardConfig.BoardVersion.BoardVariant, 2)
    \o Bytes(d.FPGAConfig.FPGAType, 2)
    \o <<d.FPGAConfig.FPGAPackage>>
    \o Bytes(d.FPGAConfig.FPGAGrade, 3)
    \o <<d.RAMConfig.RAMSize, d.RAMConfig.RAMType>>
    \o Bytes(d.BitstreamConfig.BitstreamSize, 2)
    \o Bytes(d.BitstreamConfig.BitstreamCapacity, 2)
    \o Bytes(d.BitstreamConfig.BitstreamStart, 2)

\* C21: decoding is deterministic and stateless: whatever was decoded
\* before, on this device or on the one opened before it, the value decoded
\* from a buffer (descriptor, configuration, FPGA status, flash status) is
\* given by the bytes of that buffer alone, so that decoding the same buffer
\* again gives the same value.
C21_DecodeStateless ==
    /\ (ret.op = "FPGAStatus" /\ ret.err.kind = "nil") =>
           ReencodeFPGAStatus(ret.val[1]) = Bytes(rsp.b, 9)
    /\ (ret.op = "FlashStatus" /\ ret.err.kind = "nil") =>
           ReencodeFlashStatus(ret.val[1]) = Bytes(rsp.b, 8)
    /\ (DescriptorRead /\ pc = "readDeviceConfig") =>
           Reencode(d.DescriptorConfig) = Bytes(rsp.b, 40)
    /\ (ConfigRead /\ ~rsp.err /\ rsp.nbr = 128 /\ SignatureOK) =>
           ReencodeConfig = [i \in 1..19 |->
                                rsp.b[IF i <= 13 THEN i + 2 ELSE i + 12]]

\* An FPGA status has been decoded on a device whose descriptor and
\* configuration were decoded before it.
C21_Witness ==
    /\ opened
    /\ d.DescriptorConfig.DescriptorSize = 40
    /\ ret.op = "FPGAStatus"
    /\ ret.err.kind = "nil"
    /\ ret.val[1].FPGAChecksum = 17
    /\ ReencodeFPGAStatus(ret.val[1]) = Bytes(rsp.b, 9)

(***************************************************************************)
(* Properties of the codec specification.                                  *)
(***************************************************************************)
\* n is divisible by 2^k: arithmetically where the value fits the checker's
\* integers, by its low bits otherwise.
Divisible(n, k) ==
    IF n \subseteq 0..30 THEN Val(n) % (2^k) = 0 ELSE \A b \in n : b >= k

\* The scale of the tightest prefix of n: 30, 20, 10, or 0 for none.
Tightest(n) ==
    IF n # {} /\ Divisible(n, 30) THEN 30
    ELSE IF n # {} /\ Divisible(n, 20) THEN 20
    ELSE IF n # {} /\ Divisible(n, 10) THEN 10
    ELSE 0

\* The text of the prefix of scale 2^k.
PrefixOfScale(k) ==
    CASE k = 30 -> PrefixGi
      [] k = 20 -> PrefixMi
      [] k = 10 -> PrefixKi

\* The scale of a prefix read back from the text.
ScaleOfPrefix(p) ==
    CASE p = PrefixGi -> 30
      [] p = PrefixMi -> 20
      [] p = PrefixKi -> 10

\* C8: binaryPrefix(n, unit) renders every 64-bit n with its tightest
\* prefix: the 2^30 prefix when n # 0 is divisible by 2^30, else the 2^20
\* prefix, else the 2^10 prefix, else the decimal count and the unit alone;
\* 0 renders as "0B" and 1536 as "1536B".
C8_TightestPrefix ==
    out.op = "binaryPrefix" =>
        LET n    == arg.val[1]
            unit == arg.val[2]
            k    == Tightest(n)
        IN  /\ k = 0 => out.val = <<n, unit>>
            /\ k # 0 => /\ Len(out.val) = 7
                        /\ out.val[2] = PrefixOfScale(k)
                        /\ out.val[3] = unit
                        /\ out.val[5] = n
                        /\ out.val[6] = unit
            /\ n = {} => out.val = <<Bits(0), "B">>
            /\ n = Bits(1536) => out.val = <<Bits(1536), "B">>

\* 2^30 + 2^20 is divisible by 2^20 and 2^10 and is rendered in Mi.
C8_Witness ==
    /\ out.op = "binaryPrefix"
    /\ arg.val[1] = {20, 30}
    /\ out.val[2] = PrefixMi
    /\ Val(out.val[1]) = 1025

\* C9: a prefixed rendering is exact: the value q emitted before a prefix of
\* scale 2^k satisfies q * 2^k = n, and n has no 1 bit below bit k.
C9_PrefixExact ==
    (out.op = "binaryPrefix" /\ Len(out.val) = 7) =>
        LET n == arg.val[1]
            q == out.val[1]
            k == ScaleOfPrefix(out.val[2])
        IN  /\ {b + k : b \in q} = n
            /\ \A b \in n : b >= k
            /\ n \subseteq 0..30 => Val(q) * (2^k) = Val(n)

\* 2^63 + 2^10 is rendered as 2^53 + 1 times 2^10.
C9_Witness ==
    /\ out.op = "binaryPrefix"
    /\ arg.val[1] = {10, 63}
    /\ out.val[2] = PrefixKi
    /\ out.val[1] = {0, 53}

\* The 16-bit sector field of the last FlashSector call, little-endian.
SectorField == arg.val[1][0] + 256 * arg.val[1][1]

\* The result of FlashSector.Number in the last FlashSector call.
SectorNumber == out.val[1]

\* C10: for every 16-bit flash sector field, with bit 15 set the decoded
\* sector size is 2^(low 15 bits), otherwise it is the low 15 bits as a
\* literal byte count; 0x800C and 0x1000 both decode to 4096.
C10_SectorSize ==
    out.op = "FlashSector" =>
        /\ IF SectorField >= 32768
           THEN SectorNumber = {SectorField - 32768}
           ELSE SectorNumber = Bits(SectorField)
        /\ SectorField \in {32780, 4096} => Val(SectorNumber) = 4096

\* The bytes of s before its first zero byte.
RECURSIVE UpToFirstZero(_)
UpToFirstZero(s) ==
    IF s = <<>> \/ Head(s) = 0 THEN <<>> ELSE <<Head(s)>> \o UpToFirstZero(Tail(s))

\* s without the zero bytes at its end.
RECURSIVE TrimTrailingZeros(_)
TrimTrailingZeros(s) ==
    IF s # <<>> /\ s[Len(s)] = 0
    THEN TrimTrailingZeros(SubSeq(s, 1, Len(s) - 1))
    ELSE s

\* The 2 raw bytes of the variant in the last BoardVariant call.
VariantRaw == <<arg.val[1][0], arg.val[1][1]>>

\* C11 as stated: every 2-byte variant renders as its raw bytes with the
\* trailing zero bytes removed.
C11_Original ==
    out.op = "BoardVariant" =>
        /\ out.val[1] = TrimTrailingZeros(VariantRaw)
        /\ out.val[2] = TrimTrailingZeros(VariantRaw)

\* C11: every 2-byte variant renders as its raw bytes before the first zero
\* byte: {0x00,0x00} as the empty string, {0x62,0x00} as "b", {0x62,0x31} as
\* "b1"; the rendered length is in {0,1,2}.
C11_VariantUpToFirstZero ==
    out.op = "BoardVariant" =>
        /\ out.val[1] = UpToFirstZero(VariantRaw)
        /\ out.val[2] = UpToFirstZero(VariantRaw)
        /\ Len(out.val[2]) \in {0, 1, 2}
        /\ VariantRaw = <<0, 0>> => out.val[2] = <<>>
        /\ VariantRaw = <<98, 0>> => out.val[2] = <<98>>
        /\ VariantRaw = <<98, 49>> => out.val[2] = <<98, 49>>

\* The variant {0x62,0x00} is rendered as "b".
C11_Witness ==
    /\ out.op = "BoardVariant"
    /\ VariantRaw = <<98, 0>>
    /\ out.val[2] = <<98>>

\* The 10 raw bytes of the serial in the last DescriptorSerial call.
SerialRaw == [i \in 1..10 |-> arg.val[1][i - 1]]

\* C12: the text of the 10-byte serial contains no zero byte and equals the
\* serial bytes up to, not including, the first NUL.
C12_SerialNULTrimmed ==
    out.op = "DescriptorSerial" =>
        /\ \A i \in 1..Len(out.val[2]) : out.val[2][i] # 0
        /\ out.val[2] = UpToFirstZero(SerialRaw)

\* Bit i of the byte z.
BitOf(z, i) == (z \div (2^i)) % 2 = 1

\* C13: the transferred-byte count of a 9-byte FPGA state is its bytes 2..5
\* decoded little-endian as an unsigned 32-bit value, b2 + b3*2^8 + b4*2^16
\* + b5*2^24, for all byte values; the field {0x00,0x00,0x01,0x00} yields
\* 65536.
C13_TransferredLittleEndian ==
    out.op = "FPGATransferred" =>
        LET b == arg.val[1]
            n == out.val[2]
        IN  /\ n = {i \in 0..31 : BitOf(b[2 + (i \div 8)], i % 8)}
            /\ b[5] < 128 =>
                   Val(n) = b[2] + b[3] * 256 + b[4] * 65536 + b[5] * 16777216
            /\ <<b[2], b[3], b[4], b[5]>> = <<0, 0, 1, 0>> => Val(n) = 65536

\* The field {0x00,0x00,0x01,0x00} is decoded as 65536.
C13_Witness ==
    /\ out.op = "FPGATransferred"
    /\ arg.val[1][4] = 1
    /\ arg.val[1][2] + arg.val[1][3] + arg.val[1][5] = 0
    /\ out.val[2] = {16}
    /\ Val(out.val[2]) = 65536

ModuleNames ==
    (11 :> "ZTEX USB-FPGA Module 1.2") @@ (12 :> "ZTEX USB-FPGA Module 1.11")
    @@ (13 :> "ZTEX USB-FPGA Module 1.15") @@ (14 :> "ZTEX USB-FPGA Module 1.15x")
    @@ (15 :> "ZTEX USB-FPGA Module 1.15y") @@ (16 :> "ZTEX USB-FPGA Module 2.16")
    @@ (17 :> "ZTEX USB-FPGA Module 2.13") @@ (18 :> "ZTEX USB-FPGA Module 2.01")
    @@ (19 :> "ZTEX USB-FPGA Module 2.04") @@ (20 :> "ZTEX USB Module 1.0")
    @@ (30 :> "ZTEX USB-XMEGA Module 1.0") @@ (40 :> "ZTEX USB-FPGA Module 2.02")
    @@ (41 :> "ZTEX USB-FPGA Module 2.14") @@ (42 :> "ZTEX USB3-FPGA Module 2.18")

\* The 4 bytes of the identifier in the last DescriptorProduct call.
ProductRaw == <<arg.val[1][0], arg.val[1][1], arg.val[1][2], arg.val[1][3]>>

\* The names the rules that match the identifier z give, by the number of
\* bytes the rule reads: 4 for a whole identifier, 2 for a module, 1 for a
\* first byte alone.
Matches(z) ==
    (IF z = <<0, 0, 0, 0>> THEN {<<4, "Default">>} ELSE {})
    \cup (IF z = <<10, 0, 1, 1>> THEN {<<4, "ZTEX BTCMiner">>} ELSE {})
    \cup (IF z[1] = 10 /\ z[2] = 12 /\ z[3] = 2 /\ z[4] \in 1..4
          THEN {<<4, "NIT">>} ELSE {})
    \cup (IF z[1] = 10 /\ z[2] \in DOMAIN ModuleNames
          THEN {<<2, ModuleNames[z[2]]>>} ELSE {})
    \cup (IF z[1] = 1 THEN {<<1, "Experimental">>} ELSE {})
    \cup (IF z[1] = 10 THEN {<<1, "ZTEX">>} ELSE {})

\* C16: the product identifier renders by most-specific match: 0.0.0.0 is
\* "Default", first byte 1 is "Experimental", a 4-byte sub-family rule
\* (10.0.1.1, 10.12.2.1..4) wins over the 2-byte rule of the same prefix, a
\* first byte 10 without a table entry is "ZTEX", every other value is
\* "Unknown"; every identifier gets exactly one name.
C16_ProductName ==
    out.op = "DescriptorProduct" =>
        LET z == ProductRaw
            m == Matches(z)
        IN  /\ m = {} => out.val[1] = "Unknown"
            /\ m # {} =>
                   \E x \in m : /\ \A y \in m : y[1] <= x[1]
                                /\ out.val[1] = x[2]
            /\ \A x \in m, y \in m : x[1] = y[1] => x = y
            /\ out.val[2] = <<z[1], ".", z[2], ".", z[3], ".", z[4], " [",
                              out.val[1], "]">>

\* 10.12.2.4 is "NIT", not module 1.11.
C16_Witness ==
    /\ out.op = "DescriptorProduct"
    /\ ProductRaw = <<10, 12, 2, 4>>
    /\ out.val[1] = "NIT"

\* The (byte, bit) pair of each named capability.
NamedBits ==
    ("EEPROM" :> <<0, 0>>) @@ ("FPGA Configuration" :> <<0, 1>>)
    @@ ("Flash Memory" :> <<0, 2>>) @@ ("Debug Helper" :> <<0, 3>>)
    @@ ("XMEGA" :> <<0, 4>>) @@ ("High Speed FPGA Configuration" :> <<0, 5>>)
    @@ ("MAC EEPROM" :> <<0, 6>>) @@ ("MultiFPGA" :> <<0, 7>>)
    @@ ("Temperature Sensor" :> <<1, 0>>) @@ ("Flash Memory 2" :> <<1, 1>>)
    @@ ("FX3 Firmware" :> <<1, 2>>) @@ ("Debug Helper 2" :> <<1, 3>>)
    @@ ("Default Firmware" :> <<1, 4>>)

\* The capability array of the last DescriptorCapability call and the
\* (name, answer) pairs it gave.
CapabilityRaw == arg.val[1]

CapabilityFlags == out.val[1]

\* The bits that are 1 in the capability array z.
BitsSet(z) == {x \in (0..5) \X (0..7) : CapBit(z, x[1], x[2]) = 1}

\* C17: each named capability has one fixed (byte, bit) pair, no two named
\* capabilities share a pair, and for every capability array the accessor
\* of a feature answers true exactly when that bit is 1, whatever the
\* other bits are.
C17_CapabilityBits ==
    out.op = "DescriptorCapability" =>
        LET z == CapabilityRaw
            f == CapabilityFlags
        IN  /\ \A k \in 1..Len(f) :
                   /\ f[k][1] \in DOMAIN NamedBits
                   /\ f[k][2] <=> NamedBits[f[k][1]] \in BitsSet(z)
            /\ \A k \in 1..Len(f), l \in 1..Len(f) :
                   k # l => /\ f[k][1] # f[l][1]
                            /\ NamedBits[f[k][1]] # NamedBits[f[l][1]]
            /\ Cardinality(BitsSet(z)) = 1 =>
                   Cardinality({k \in 1..Len(f) : f[k][2]}) <= 1
            /\ Cardinality(BitsSet(z)) = 47 =>
                   Cardinality({k \in 1..Len(f) : ~f[k][2]}) <= 1

\* With bit 1.1 alone set, Flash Memory 2 is the one capability reported.
C17_Witness ==
    /\ out.op = "DescriptorCapability"
    /\ BitsSet(CapabilityRaw) = {<<1, 1>>}
    /\ {k \in 1..Len(CapabilityFlags) : CapabilityFlags[k][2]} = {10}
    /\ CapabilityFlags[10][1] = "Flash Memory 2"

\* The capability array z with its bytes 2..5 cleared.
FirstTwoBytes(z) == [i \in 0..5 |-> IF i < 2 THEN z[i] ELSE 0]

\* C18 as stated: there are 12 named capability accessors and all of them
\* read only the first two capability bytes.
C18_Original ==
    out.op = "DescriptorCapability" =>
        /\ Len(CapabilityFlags) = 12
        /\ CapabilityFlags = DescriptorCapabilityString(FirstTwoBytes(CapabilityRaw))

\* C18: the capability set consists of 13 named flags packed into 2 bytes:
\* there are 13 named capability accessors, and all of them read only the
\* first two capability bytes.
C18_ThirteenFlags ==
    out.op = "DescriptorCapability" =>
        /\ Len(CapabilityFlags) = 13
        /\ Cardinality({CapabilityFlags[k][1] : k \in 1..Len(CapabilityFlags)}) = 13
        /\ CapabilityFlags = DescriptorCapabilityString(FirstTwoBytes(CapabilityRaw))
        /\ (CapabilityRaw[0] = 0 /\ CapabilityRaw[1] = 0) =>
               \A k \in 1..Len(CapabilityFlags) : ~CapabilityFlags[k][2]
        /\ (CapabilityRaw[0] = 255 /\ CapabilityRaw[1] = 255) =>
               \A k \in 1..Len(CapabilityFlags) : CapabilityFlags[k][2]

\* With the bytes 2..5 all set and the first two clear, 13 flags are
\* reported and none is set.
C18_Witness ==
    /\ out.op = "DescriptorCapability"
    /\ CapabilityRaw[0] = 0 /\ CapabilityRaw[1] = 0
    /\ CapabilityRaw[2] # 0
    /\ Len(CapabilityFlags) = 13
    /\ \A k \in 1..13 : ~CapabilityFlags[k][2]

(***************************************************************************)
(* Properties of the two-device specification.                             *)
(***************************************************************************)
\* The command operations: capability bit, request type, request code,
\* value parameter and length of the answer.
Commands ==
    {[op |-> "ResetFPGA", i |-> 0, j |-> 1, rType |-> 64, request |-> 49,
      val |-> 0, len |-> 0],
     [op |-> "ResetFX3", i |-> 1, j |-> 2, rType |-> 64, request |-> 161,
      val |-> 1, len |-> 0],
     [op |-> "ResetDefaultFirmware", i |-> 1, j |-> 4, rType |-> 64,
      request |-> 96, val |-> 0, len |-> 0],
     [op |-> "FPGAStatus", i |-> 0, j |-> 1, rType |-> 192, request |-> 48,
      val |-> 0, len |-> 9],
     [op |-> "FlashStatus", i |-> 0, j |-> 2, rType |-> 192, request |-> 64,
      val |-> 0, len |-> 8]}

\* What the last call on the handle h gives when the calls of h run alone:
\* the gate of h's own device decides whether the one transfer is issued,
\* and the answer to that transfer decides the error.
RunsAsAlone(h) ==
    \A c \in Commands :
        h.ret.op = c.op =>
            IF CapBit(h.d.DescriptorConfig.DescriptorCapability, c.i, c.j) = 0
            THEN /\ h.xfers = <<>>
                 /\ h.ret.err.kind = "operation not supported"
            ELSE /\ Len(h.xfers) = 1
                 /\ h.xfers[1].rType = c.rType
                 /\ h.xfers[1].request = c.request
                 /\ h.xfers[1].val = c.val
                 /\ h.xfers[1].len = c.len
                 /\ h.ret.err.kind =
                        (IF h.rsp.err THEN "transport"
                         ELSE IF h.rsp.nbr # c.len THEN "bytes" ELSE "nil")

\* The command calls of C22: in every interleaving of the command calls on
\* two handles, each handle's call issues the transfers and returns the
\* result it does when run alone, decided by its own device and its own
\* answer.
C22_DevicesIndependent ==
    /\ \A i \in Handles : RunsAsAlone(devs[i])
    /\ \A i \in Handles : devs[i].ret.op = "none" => devs[i].xfers = <<>>

\* The same call has been made on both handles: the device with the FPGA
\* gate open got its status, the device without it was refused.
C22_Witness ==
    /\ devs[1].ret.op = "FPGAStatus"
    /\ devs[2].ret.op = "FPGAStatus"
    /\ CapBit(devs[1].d.DescriptorConfig.DescriptorCapability, 0, 1) = 0
    /\ CapBit(devs[2].d.DescriptorConfig.DescriptorCapability, 0, 1) = 1
    /\ devs[1].ret.err.kind = "operation not supported"
    /\ devs[2].ret.err.kind = "nil"
    /\ Len(devs[2].xfers) = 1

(***************************************************************************)
(* Properties of the RAM size, the flash error and the FPGA grade.         *)
(***************************************************************************)
\* The size byte of the last RAMSize call.
SizeByte == arg.val[1][0]

\* The high nibble of the size byte in place, and the shift its low nibble
\* asks for.
SizeHigh == SizeByte - (SizeByte % 16)

SizeShift == (SizeByte % 16) + 16

\* The capacity rendered by the last RAMSize call: the full count of the
\* prefixed form, the only count of the plain form.
SizeRendered ==
    IF Len(out.val[1]) = 7 THEN out.val[1][5] ELSE out.val[1][1]

\* C23: for every RAM size byte r the capacity is (r & 0xF0) shifted left by
\* (r & 0x0F) + 16: every 1 bit of the high nibble arrives at its place
\* below bit 64 (at most bit 38, for 0xF0 << 31), none is lost, and that
\* value is the one binaryPrefix renders.
C23_RAMCapacity ==
    out.op = "RAMSize" =>
        /\ SizeRendered = {b + SizeShift : b \in Bits(SizeHigh)}
        /\ Cardinality(SizeRendered) = Cardinality(Bits(SizeHigh))
        /\ \A b \in SizeRendered : b <= 38
        /\ SizeShift <= 23 => Val(SizeRendered) = SizeHigh * (2^SizeShift)
        /\ out.val[1] = binaryPrefix(SizeRendered, "B")
        /\ SizeHigh = 0 => out.val[1] = <<{}, "B">>

\* The largest size byte: 0xF0 << 31 is rendered, bits 35..38, in Gi.
C23_Witness ==
    /\ out.op = "RAMSize"
    /\ SizeByte = 255
    /\ SizeRendered = {35, 36, 37, 38}
    /\ out.val[1][1] = {5, 6, 7, 8}
    /\ out.val[1][2] = PrefixGi

\* The error names of codes 0..8, in the order of the codes.
ErrorNames ==
    <<"None", "Command Error", "Timeout Error", "Busy Error",
      "Pending Error", "Read Error", "Write Error", "Unsupported Error",
      "Runtime Error">>

\* The flash error byte of the last FlashError call and its text.
ErrorCode == arg.val[1][0]

ErrorText == out.val[1]

\* The code a text names: the number inside the fallback text, the place of
\* a name in the list.
CodeOfText(t) ==
    IF Len(t) = 3 THEN t[2]
    ELSE CHOOSE c \in 0..8 : ErrorNames[c + 1] = t[1]

\* C24: the flash error byte renders 0..8 as none, command, timeout, busy,
\* pending, read, write, unsupported, runtime in that order, and every value
\* 9..255 as the fallback text holding the code itself; every byte has a
\* text, and the text names one code only.
C24_FlashErrorText ==
    out.op = "FlashError" =>
        /\ ErrorCode <= 8 => ErrorText = <<ErrorNames[ErrorCode + 1]>>
        /\ ErrorCode >= 9 =>
               /\ Len(ErrorText) = 3
               /\ ErrorText[1] = "Unknown Error ["
               /\ ErrorText[2] = ErrorCode
        /\ CodeOfText(ErrorText) = ErrorCode
        /\ \A g \in FlashErrorInputs :
               FlashErrorString(g) = ErrorText => g = ErrorCode

\* The first code past the names is rendered with its number.
C24_Witness ==
    /\ out.op = "FlashError"
    /\ ErrorCode = 9
    /\ ErrorText = <<"Unknown Error [", 9, "]">>

\* The 3 raw bytes of the grade in the last FPGAGrade call.
GradeRaw == <<arg.val[1][0], arg.val[1][1], arg.val[1][2]>>

\* C26: the FPGA grade renders as the bytes of its 3-byte field before the
\* first zero byte, 0 to 3 of them: a zero in position 0 gives the empty
\* string and a zero in position 1 gives one byte whatever follows, and the
\* text holds no zero byte.
C26_GradeUpToFirstZero ==
    out.op = "FPGAGrade" =>
        /\ out.val[1] = UpToFirstZero(GradeRaw)
        /\ out.val[2] = UpToFirstZero(GradeRaw)
        /\ Len(out.val[2]) \in 0..3
        /\ GradeRaw[1] = 0 => out.val[2] = <<>>
        /\ (GradeRaw[1] # 0 /\ GradeRaw[2] = 0) => out.val[2] = <<GradeRaw[1]>>
        /\ \A i \in 1..Len(out.val[2]) : out.val[2][i] # 0

\* A zero in position 1 followed by a byte that is not zero: one byte is
\* rendered.
C26_Witness ==
    /\ out.op = "FPGAGrade"
    /\ GradeRaw = <<49, 0, 67>>
    /\ out.val[2] = <<49>>

(***************************************************************************)
(* Properties of the order and the frame of the operations.                *)
(***************************************************************************)
\* A step in which a command method is called on the open device.
CommandStep ==
    /\ pc = "idle"
    /\ opened
    /\ opened'
    /\ ret'.op \in CommandOps

\* C25: no command call (ResetFPGA, ResetFX3, ResetDefaultFirmware,
\* FPGAStatus, FlashStatus), successful or failed, changes the decoded
\* descriptor, the board, FPGA, RAM or bitstream configuration of the
\* device; so the capability gate of every operation answers after the call
\* as it did before it, and after any sequence of calls as it did when
\* OpenDevice returned.
C25_CommandsFrame ==
    [][CommandStep =>
          /\ d'.DescriptorConfig = d.DescriptorConfig
          /\ d'.BoardConfig = d.BoardConfig
          /\ d'.FPGAConfig = d.FPGAConfig
          /\ d'.RAMConfig = d.RAMConfig
          /\ d'.BitstreamConfig = d.BitstreamConfig
          /\ \A c \in Commands :
                CapBit(d'.DescriptorConfig.DescriptorCapability, c.i, c.j)
                    = CapBit(d.DescriptorConfig.DescriptorCapability, c.i, c.j)]_vars

\* A successful ResetFPGA has returned on a device that still has its FPGA
\* capability and its decoded descriptor.
C25_Witness ==
    /\ pc = "idle"
    /\ opened
    /\ ret.op = "ResetFPGA"
    /\ ret.err.kind = "nil"
    /\ CapBit(DeviceCapability, 0, 1) = 1
    /\ d.DescriptorConfig.DescriptorSize = 40

\* The two reads of OpenDevice, in the order of the calls.
OpenDeviceReads == <<Xfer(192, 34, 0, 0, 40), Xfer(192, 59, 0, 0, 128)>>

\* Within OpenDevice: the transfers so far are the first of the two reads
\* in order; the second one is there only when the descriptor has passed its
\* checks; an option has acted or failed only when both reads were accepted.
OpenDeviceSteps ==
    InOpenDevice =>
        /\ Len(xfers) <= 2
        /\ xfers = SubSeq(OpenDeviceReads, 1, Len(xfers))
        /\ Len(xfers) = 2 =>
               /\ d.DescriptorConfig.DescriptorSize = 40
               /\ d.DescriptorConfig.DescriptorVersion = 1
        /\ (pc = "options" \/ d.ControlTimeout # 0 \/ ret.err.kind = "option") =>
               /\ Len(xfers) = 2
               /\ ~rsp.err /\ rsp.nbr = 128 /\ SignatureOK

\* A step of the option loop applies the first of the options left: a
\* failing one ends OpenDevice with nil and its error, with the options
\* after it left; OpenDevice returns the device only when none is left.
OptionStep ==
    /\ (pc = "options" /\ opt' # opt) =>
           /\ opt' = Tail(opt)
           /\ IF Head(opt).kind = "ControlTimeout"
              THEN /\ d'.ControlTimeout = Head(opt).timeout
                   /\ pc' = "options"
              ELSE /\ d' = d
                   /\ pc' = "idle"
                   /\ ~opened'
                   /\ ret' = Returned("OpenDevice", Err("option", 0, 0), "nil")
    /\ (pc = "options" /\ pc' = "idle" /\ opened') => opt = <<>>

\* C28: OpenDevice issues its steps in a fixed order: the descriptor read
\* (0x22) before the configuration read (0x3B), the configuration read only
\* after the descriptor passed all its checks, the options only after both
\* reads succeeded and in argument order; the first option that fails stops
\* the remaining ones and OpenDevice returns nil with that error.
C28_OpenDeviceOrder == []OpenDeviceSteps /\ [][OptionStep]_vars

\* The first of two options failed after both reads: the second one is
\* still there, not applied.
C28_Witness ==
    /\ OpenDeviceFailedWith("option")
    /\ Len(xfers) = 2
    /\ Len(opt) = 1
    /\ opt[1].kind = "ControlTimeout"
    /\ d.ControlTimeout = 0

\* C29: the status reads are gated like the resets: FPGAStatus on a device
\* with capability bit 0.1 clear, and FlashStatus on a device with bit 0.2
\* clear, return a nil status and the error "operation not supported" and
\* issue no control transfer.
C29_StatusGated ==
    \A i \in Handles :
        LET h == devs[i]
            z == h.d.DescriptorConfig.DescriptorCapability
        IN  /\ (h.ret.op = "FPGAStatus" /\ CapBit(z, 0, 1) = 0) =>
                   /\ h.ret.val = NilStatus
                   /\ h.ret.err.kind = "operation not supported"
                   /\ h.xfers = <<>>
            /\ (h.ret.op = "FlashStatus" /\ CapBit(z, 0, 2) = 0) =>
                   /\ h.ret.val = NilStatus
                   /\ h.ret.err.kind = "operation not supported"
                   /\ h.xfers = <<>>

\* FlashStatus was refused on the second device, which has the FPGA bit but
\* not the flash bit, while the first device has the flash bit.
C29_Witness ==
    /\ devs[2].ret.op = "FlashStatus"
    /\ CapBit(devs[2].d.DescriptorConfig.DescriptorCapability, 0, 1) = 1
    /\ CapBit(devs[2].d.DescriptorConfig.DescriptorCapability, 0, 2) = 0
    /\ CapBit(devs[1].d.DescriptorConfig.DescriptorCapability, 0, 2) = 1
    /\ devs[2].ret.err.kind = "operation not supported"
    /\ devs[2].xfers = <<>>

\* The descriptor is decoded from the answer to request 0x22, and the steps
\* of OpenDevice after it, the read of request 0x3B into the buffer first,
\* leave it as decoded.
DescriptorKept ==
    /\ (pc = "readDescriptorConfig" /\ pc' = "readDeviceConfig") =>
           Reencode(d'.DescriptorConfig) = Bytes(rsp'.b, 40)
    /\ (pc \in {"readDeviceConfig", "options"}) =>
           d'.DescriptorConfig = d.DescriptorConfig

\* C30: where OpenDevice reads both answers into one buffer, the descriptor
\* decoded from the first read is not affected by the second read
\* overwriting the buffer: after a successful OpenDevice every descriptor
\* field is still the bytes returned by request 0x22, whatever request 0x3B
\* returned.
C30_DescriptorKept == [][DescriptorKept]_vars

\* OpenDevice has succeeded, and the buffer, now holding the answer to
\* request 0x3B, differs from the descriptor in its first 40 bytes.
C30_Witness ==
    /\ pc = "idle"
    /\ opened
    /\ ret.op = "OpenDevice"
    /\ Len(xfers) = 2
    /\ rsp.nbr = 128
    /\ d.DescriptorConfig.DescriptorSize = 40
    /\ Bytes(rsp.b, 40) # Reencode(d.DescriptorConfig)

(***************************************************************************)
(* Properties of the first revision.                                       *)
(***************************************************************************)
\* OpenDevice of the first revision has returned a device.
LegacyOpened == leg.ret.op = "OpenDevice" /\ leg.ret.val = "device"

\* The byte count of the answer to request 0x64 in that call.
DefaultInterfaceLength == leg.rsps[3].nbr

\* C27: the default interface endpoints use 255 for "not available": the
\* output and the input endpoint of the returned device are 255 exactly
\* when the answer to request 0x64 has neither 3 nor 4 bytes, and for an
\* answer of 3 or 4 bytes neither endpoint (output b[1] & 127, input
\* b[2] | 128) is 255.
C27_EndpointSentinel ==
    LegacyOpened =>
        /\ (leg.d.DefaultInterfaceOutputEndpoint = 255)
               <=> (DefaultInterfaceLength \notin {3, 4})
        /\ (leg.d.DefaultInterfaceInputEndpoint = 255)
               <=> (DefaultInterfaceLength \notin {3, 4})
        /\ DefaultInterfaceLength \in {3, 4} =>
               /\ leg.d.DefaultInterfaceOutputEndpoint
                      = leg.rsps[3].b[1] % 128
               /\ leg.d.DefaultInterfaceInputEndpoint
                      = (leg.rsps[3].b[2] % 128) + 128

\* C22: operations on distinct devices are independent and no operation
\* reads or writes package-level mutable state: an OpenDevice that gets the
\* answers the OpenDevice before it got returns an equal Device, whatever
\* the program did to the package in between.
C22_NoPackageState ==
    [][(/\ LegacyOpened
        /\ leg'.ret.op = "OpenDevice"
        /\ leg'.ret.val = "device"
        /\ leg'.rsps = leg.rsps) => leg'.d = leg.d]_vars

====
